---- MODULE Spec2Model ----
(***************************************************************************)
(* A model of Mijit's optimizer and x86-64 lowerer:                        *)
(*   - optimizer/simulation.rs   Simulation (actions -> dataflow graph)    *)
(*   - optimizer/builder/allocator/mod.rs   instruction scheduling and     *)
(*     register allocation                                                 *)
(*   - optimizer/builder/mod.rs  Builder::walk (hot and cold paths)        *)
(*   - target/x86_64/lowerer.rs  lowering of actions to x86-64             *)
(* Each subsystem has its own specification (SpecSim, SpecAlloc, ...); the *)
(* variables of the other subsystems stay at their idle value.             *)
(***************************************************************************)
EXTENDS Integers, Sequences, FiniteSets, TLC

VARIABLES
    sim,        \* the Simulation struct (simulation.rs:9-20)
    simPc,      \* "idle" | "running" | "panicked" | "finished"
    simN,       \* the number of actions simulated so far
    df,         \* the dataflow graph, Variables and outputs given to allocate()
    al,         \* the Allocator struct (allocator/mod.rs:39-59)
    nodes_rev,  \* the local `nodes_rev` of allocate(): the nodes still to add
    alPc,       \* "idle" | "adding" | "finished" | "panicked"
    machine,    \* the registers and the pool memory of the x86-64 machine
    lowering,   \* the action being lowered, its code and the next instruction
    loPc,       \* "idle" | "ready" | "running" | "done"
    wk,         \* the locals of Builder::walk (builder/mod.rs:73-194)
    wkPc,       \* "idle" | "allocate" | "back" | "done"
    pa,         \* a Lowerer's code, a Label, and what Lowerer::patch returned
    paPc,       \* "idle" | "lowering" | "panicked"
    cp,         \* the eager compilation of a Machine: the states seen and done
    mv,         \* the parallel move at the exit of an EBB (CodeGen::finish)
    vm          \* the Beetle VM of beetle/mod.rs tests, and who holds it

simVars == <<sim, simPc, simN>>

allocVars == <<df, al, nodes_rev, alPc>>

lowVars == <<machine, lowering, loPc>>

walkVars == <<wk, wkPc>>

patchVars == <<pa, paPc>>

restVars == <<cp, mv, vm>>

vars == <<sim, simPc, simN, df, al, nodes_rev, alPc, machine, lowering, loPc, wk, wkPc,
         pa, paPc, cp, mv, vm>>

\* The value of the variables of a subsystem that is not running.
Idle == <<>>
SimIdle == sim = Idle /\ simPc = "idle" /\ simN = 0
AllocIdle == df = Idle /\ al = Idle /\ nodes_rev = Idle /\ alPc = "idle"
LowIdle == machine = Idle /\ lowering = Idle /\ loPc = "idle"
WalkIdle == wk = Idle /\ wkPc = "idle"
PatchIdle == pa = Idle /\ paPc = "idle"
CompileIdle == cp = Idle
MovesIdle == mv = Idle
VMIdle == vm = Idle
RestIdle == CompileIdle /\ MovesIdle /\ VMIdle

(***************************************************************************)
(* Helpers on naturals and sequences.                                      *)
(***************************************************************************)
\* The only element of a set of one element.
Only(S) == CHOOSE x \in S : TRUE

RECURSIVE Pow2(_)
Pow2(n) == IF n = 0 THEN 1 ELSE 2 * Pow2(n - 1)

RECURSIVE BitAnd(_, _)
BitAnd(a, b) ==
    IF a = 0 \/ b = 0 THEN 0
    ELSE (a % 2) * (b % 2) + 2 * BitAnd(a \div 2, b \div 2)

Range(s) == {s[i] : i \in 1..Len(s)}

Max2(a, b) == IF a >= b THEN a ELSE b

(***************************************************************************)
(* Simulation (optimizer/simulation.rs).                                   *)
(* A Value is a number.  A Node is its index in the dataflow sequence; the *)
(* entry node is node 1.  An Out is <<node, k>>, the k-th output of node.  *)
(***************************************************************************)
MaxActions == 3
\* The widths of P32 and P64 values, scaled down.
W32 == 2
W64 == 4
\* The scaled width of the i32 offset of an address.
DispBits == 6

SimRegisters == {0, 1}
SimValues == {0, 1}
AliasMasks == {0, 1, 2, 3}
StoreMasks == {1, 2, 3}

NoOut == <<0, 0>>
entry_node == 1

\* AliasMask::can_alias
can_alias(m1, m2) == BitAnd(m1, m2) # 0

SimNode(op, arg, deps, ins, nouts) ==
    [op |-> op, arg |-> arg, deps |-> deps, ins |-> ins, nouts |-> nouts]

\* Simulation::new
SimNew(inputs) ==
    [dataflow |-> <<SimNode("Entry", 0, <<>>, <<>>, Len(inputs))>>,
     bindings |-> [v \in SimValues |->
                     IF \E i \in 1..Len(inputs) : inputs[i] = v
                     THEN <<entry_node,
                            CHOOSE i \in 1..Len(inputs) :
                                /\ inputs[i] = v
                                /\ \A j \in 1..Len(inputs) : inputs[j] = v => j <= i>>
                     ELSE NoOut],
     store |-> entry_node,
     loads |-> <<entry_node>>,
     stack |-> entry_node]

\* A lookup that never fails: an unbound Value reads as NoOut.
SimBound_Always(s, values) == TRUE

\* Simulation::lookup succeeds ("Read a dead value" otherwise)
SimBound(s, values) == \A i \in 1..Len(values) : s.bindings[values[i]] # NoOut

\* Simulation::lookup
SimLookup(s, value) == s.bindings[value]

\* Simulation::op: appends the node and binds `outs` to its outputs.
SimOp(s, op, arg, deps, ins, outs) ==
    LET node == Len(s.dataflow) + 1
        insOuts == [i \in 1..Len(ins) |-> SimLookup(s, ins[i])]
    IN  [s EXCEPT
            !.dataflow = Append(@, SimNode(op, arg, deps, insOuts, Len(outs))),
            !.bindings = [v \in SimValues |->
                IF \E i \in 1..Len(outs) : outs[i] = v
                THEN <<node, CHOOSE i \in 1..Len(outs) :
                                /\ outs[i] = v
                                /\ \A j \in 1..Len(outs) : outs[j] = v => j <= i>>
                ELSE s.bindings[v]]]

\* The node that the last SimOp returned.
SimLastNode(s) == Len(s.dataflow)

\* A move_ that records the copy as a node of the dataflow graph.
SimMoveAsNode(s, dest, src) ==
    LET node == Len(s.dataflow) + 1
    IN  [s EXCEPT !.dataflow = Append(@, SimNode("Move", 0, <<>>, <<SimLookup(s, src)>>, 1)),
                  !.bindings[dest] = <<node, 1>>]
\* Simulation::move_
SimMove(s, dest, src) == [s EXCEPT !.bindings[dest] = SimLookup(s, src)]


\* A constant that is not masked.
MaskP32_Kept(value) == value
\* `value &= 0xffffffff` (simulation.rs:78), at the scaled width.
MaskP32(value) == value % Pow2(W32)

\* Simulation::action, Action::Constant: the value of the Op::Constant.
SimConstantValue(prec, value) == IF prec = "P32" THEN MaskP32(value) ELSE value

\* Op::to_action for Op::Constant(c)
to_action_Constant(c, out) ==
    [action |-> "Constant", prec |-> "P64", dest |-> out, value |-> c]

SimConstants == {-1, 1}
SimInputs == {<<0>>, <<0, 1>>}
SimOutputs == {<<0>>, <<1, 0>>}

SimPanic ==
    /\ simPc' = "panicked"
    /\ UNCHANGED <<sim, simN>>
    /\ UNCHANGED <<allocVars, lowVars, walkVars, patchVars, restVars>>

SimStep(s) ==
    /\ sim' = s
    /\ simN' = simN + 1
    /\ UNCHANGED simPc
    /\ UNCHANGED <<allocVars, lowVars, walkVars, patchVars, restVars>>

SimCanStep == simPc = "running" /\ simN < MaxActions

\* Simulation::action, Action::Move
SimActionMove ==
    /\ SimCanStep
    /\ \E dest \in SimValues, src \in SimValues :
        IF SimBound(sim, <<src>>)
        THEN SimStep(SimMove(sim, dest, src))
        ELSE SimPanic

\* Simulation::action, Action::Constant
SimActionConstant ==
    /\ SimCanStep
    /\ \E prec \in {"P32", "P64"}, dest \in {0}, value \in SimConstants :
        LET v == SimConstantValue(prec, value)
        IN  SimStep(SimOp(sim, "Constant", v, <<>>, <<>>, <<dest>>))

\* Simulation::action, Action::Unary
SimActionUnary ==
    /\ SimCanStep
    /\ \E dest \in {1}, src \in SimValues :
        IF SimBound(sim, <<src>>)
        THEN SimStep(SimOp(sim, "Unary", 0, <<>>, <<src>>, <<dest>>))
        ELSE SimPanic

\* Simulation::action, Action::Binary
SimActionBinary ==
    /\ SimCanStep
    /\ \E dest \in {1}, src1 \in {0}, src2 \in SimValues :
        IF SimBound(sim, <<src1, src2>>)
        THEN SimStep(SimOp(sim, "Binary", 0, <<>>, <<src1, src2>>, <<dest>>))
        ELSE SimPanic

\* A Load that depends on the entry node instead of the most recent Store.
SimLoadOnEntry(s, dest, addr, alias_mask) ==
    LET s1 == SimOp(s, "Load", alias_mask, <<entry_node>>, <<addr>>, <<dest>>)
    IN  [s1 EXCEPT !.loads = Append(@, SimLastNode(s1))]

\* Simulation::action, Action::Load
SimLoad(s, dest, addr, alias_mask) ==
    LET s1 == SimOp(s, "Load", alias_mask, <<s.store>>, <<addr>>, <<dest>>)
    IN  [s1 EXCEPT !.loads = Append(@, SimLastNode(s1))]

SimActionLoad ==
    /\ SimCanStep
    /\ \E dest \in SimRegisters, addr \in {0}, alias_mask \in AliasMasks :
        IF SimBound(sim, <<addr>>)
        THEN SimStep(SimLoad(sim, dest, addr, alias_mask))
        ELSE SimPanic

\* A Store that depends on the previous Store only, not on the open loads.
SimStoreOnStore(s, dest, src, addr, alias_mask) ==
    LET deps == <<s.store>>
        s0 == [s EXCEPT !.loads = <<>>]
        s1 == SimOp(s0, "Store", alias_mask, deps, <<src, addr>>, <<dest>>)
        node == SimLastNode(s1)
        s2 == SimMove(s1, dest, src)
    IN  [s2 EXCEPT !.store = node, !.loads = Append(@, node)]

\* Simulation::action, Action::Store
SimStore(s, dest, src, addr, alias_mask) ==
    LET deps == s.loads
        s0 == [s EXCEPT !.loads = <<>>]
        s1 == SimOp(s0, "Store", alias_mask, deps, <<src, addr>>, <<dest>>)
        node == SimLastNode(s1)
        s2 == SimMove(s1, dest, src)
    IN  [s2 EXCEPT !.store = node, !.loads = Append(@, node)]

SimActionStore ==
    /\ SimCanStep
    /\ \E dest \in SimRegisters, src \in SimValues, addr \in SimValues,
          alias_mask \in StoreMasks :
        /\ <<src, addr>> # <<1, 1>>
        /\ IF SimBound(sim, <<src, addr>>)
           THEN SimStep(SimStore(sim, dest, src, addr, alias_mask))
           ELSE SimPanic

\* A stack operation that is ordered after the most recent Store.
SimStackOpAfterStore(s, op, ins, outs) ==
    LET s1 == SimOp(s, op, 0, <<s.store>>, ins, outs)
    IN  [s1 EXCEPT !.stack = SimLastNode(s1)]
\* Simulation::action, Action::Push
SimStackOp(s, op, ins, outs) ==
    LET s1 == SimOp(s, op, 0, <<s.stack>>, ins, outs)
    IN  [s1 EXCEPT !.stack = SimLastNode(s1)]

SimActionPush ==
    /\ SimCanStep
    /\ \E src \in {1} :
        IF SimBound(sim, <<src>>)
        THEN SimStep(SimStackOp(sim, "Push", <<src>>, <<>>))
        ELSE SimPanic

\* Simulation::action, Action::Pop
SimActionPop ==
    /\ SimCanStep
    /\ \E dest \in {0} :
        SimStep(SimStackOp(sim, "Pop", <<>>, <<dest>>))

\* Simulation::action, Action::Debug (emits an Op::Push node)
SimActionDebug ==
    /\ SimCanStep
    /\ \E src \in {0} :
        IF SimBound(sim, <<src>>)
        THEN SimStep(SimStackOp(sim, "Push", <<src>>, <<>>))
        ELSE SimPanic

\* Simulation::finish
SimFinish ==
    /\ simPc = "running"
    /\ \E outputs \in SimOutputs :
        IF SimBound(sim, outputs)
        THEN /\ sim' = SimOp(sim, "Convention", 0, <<sim.store, sim.stack>>, outputs, <<>>)
             /\ simPc' = "finished"
             /\ UNCHANGED <<simN, allocVars, lowVars, walkVars, patchVars, restVars>>
        ELSE SimPanic

SimInit ==
    /\ \E inputs \in SimInputs : sim = SimNew(inputs)
    /\ simPc = "running"
    /\ simN = 0
    /\ AllocIdle /\ LowIdle /\ WalkIdle /\ PatchIdle /\ RestIdle

SimNext ==
    \/ SimActionMove
    \/ SimActionConstant
    \/ SimActionUnary
    \/ SimActionBinary
    \/ SimActionLoad
    \/ SimActionStore
    \/ SimActionPush
    \/ SimActionPop
    \/ SimActionDebug
    \/ SimFinish

SpecSim == SimInit /\ [][SimNext]_vars

(***************************************************************************)
(* Properties of the Simulation.                                           *)
(***************************************************************************)
SimNodes == 1..Len(sim.dataflow)
SimIs(n, op) == sim.dataflow[n].op = op
SimDeps(n) == Range(sim.dataflow[n].deps)

\* The nodes that `n` depends on through one or more dep edges.
RECURSIVE SimDepClosure(_)
SimDepClosure(n) ==
    SimDeps(n) \cup UNION {SimDepClosure(m) : m \in SimDeps(n)}

SetMax(S) == CHOOSE x \in S : \A y \in S : y <= x

\* The most recent Store before node `n`, or the entry node.
SimPrevStore(n) ==
    LET stores == {m \in 1..(n - 1) : SimIs(m, "Store")}
    IN  IF stores = {} THEN entry_node ELSE SetMax(stores)

\* C5: every Load depends, through dep edges, on the most recent earlier
\* Store whose AliasMask shares a bit with the Load's mask, and on the entry
\* node when there is no such Store.
C5_LoadDependsOnConflictingStore ==
    \A n \in SimNodes : SimIs(n, "Load") =>
        LET conflicting == {m \in 1..(n - 1) :
                /\ SimIs(m, "Store")
                /\ can_alias(sim.dataflow[m].arg, sim.dataflow[n].arg)}
        IN  IF conflicting = {}
            THEN entry_node \in SimDepClosure(n)
            ELSE SetMax(conflicting) \in SimDepClosure(n)

\* A Load whose most recent conflicting Store is not the most recent Store.
C5_Witness ==
    \E n \in SimNodes, m1 \in SimNodes, m2 \in SimNodes :
        /\ m1 < m2 /\ m2 < n
        /\ SimIs(n, "Load") /\ SimIs(m1, "Store") /\ SimIs(m2, "Store")
        /\ can_alias(sim.dataflow[m1].arg, sim.dataflow[n].arg)
        /\ ~can_alias(sim.dataflow[m2].arg, sim.dataflow[n].arg)

\* C6: every Store depends on every Load emitted since the previous Store
\* and on that previous Store (or the entry node); after the Store the
\* open-loads set is just that Store, which is the most recent Store.
C6_StoreDependsOnOpenLoads ==
    /\ \A n \in SimNodes : SimIs(n, "Store") =>
            \A m \in SimPrevStore(n)..(n - 1) :
                (m = SimPrevStore(n) \/ SimIs(m, "Load")) => m \in SimDeps(n)
    /\ \A n \in SimNodes :
            (SimIs(n, "Store") /\ n = Len(sim.dataflow)) =>
                (sim.loads = <<n>> /\ sim.store = n)

\* A second Store with a Load between it and the first Store.
C6_Witness ==
    \E n \in SimNodes, l \in SimNodes, m \in SimNodes :
        /\ m < l /\ l < n /\ n = Len(sim.dataflow)
        /\ SimIs(m, "Store") /\ SimIs(l, "Load") /\ SimIs(n, "Store")

(***************************************************************************)
(* The register allocator (optimizer/builder/allocator/mod.rs).            *)
(*                                                                         *)
(* Nodes are numbers.  Node 0 is the entry node (a side effect that has    *)
(* already occurred); nodes 1..NumInputs are the values that are live on   *)
(* entry; the following nodes are the nodes of the hot path, in the        *)
(* topological order in which allocate() receives them.  A node has at     *)
(* most one output, named by the node itself.                              *)
(* Maps (HashMap) are functions that give Absent for a missing key.        *)
(***************************************************************************)
\* lowerer.rs:15, 18, 26-27
POOL == "R8"
TEMP == "R12"
\* A register list that wrongly offers TEMP to the allocator.
ALLOCATABLE_REGISTERS_WithTemp ==
    <<"RA", "RD", "RC", "RB", "RBP", "RSI", "RDI", "R9", "R10", "R11", "R12", "R14", "R15">>
ALLOCATABLE_REGISTERS ==
    <<"RA", "RD", "RC", "RB", "RBP", "RSI", "RDI", "R9", "R10", "R11", "R13", "R14", "R15">>

\* impl From<code::Register> for Register (lowerer.rs:29-33)
MachineRegister(r) == ALLOCATABLE_REGISTERS[r + 1]

\* builder/mod.rs:27-31
NUM_REGISTERS == Len(ALLOCATABLE_REGISTERS)
all_registers == 0..(NUM_REGISTERS - 1)

\* The number of hot-path nodes given to allocate().
MaxNodes == 3
\* The number of nodes of a hot path given to Builder::walk.
MaxWalkNodes == 5
\* The number of Constants of the spill stress.
StressConstants == 20
\* The number of values that are live on entry.
NumInputs == 13

Absent == -1
EARLY == 0

\* optimizer/cost.rs: the issue slots of one cycle, and what a spill and a
\* slot operand cost.
BUDGET == 4
SPILL_COST == 2
SLOT_COST == 1

\* The entry node, the live-in values and the nodes of the hot path of g.
AllocNodes(g) == 0..(NumInputs + Len(g.nodes))
InputNodes == 1..NumInputs

Err(a, msg) == IF a.err = "" THEN [a EXCEPT !.err = msg] ELSE a

(* util::Usage: a stack of nodes; topmost() gives the position of the      *)
(* topmost occurrence of a node (0: none).                                 *)
UsageTopmost(usage, node) ==
    LET S == {i \in 1..Len(usage) : usage[i] = node}
    IN  IF S = {} THEN 0 ELSE CHOOSE i \in S : \A j \in S : j <= i

(* allocator/pool.rs: RegisterPool.  `dirty` says which registers are in   *)
(* use; `clean` is the queue of the others.                                *)
PoolNew(dirty) ==
    LET RECURSIVE cleanFrom(_, _)
        cleanFrom(d, r) ==
            IF r >= NUM_REGISTERS THEN <<>>
            ELSE (IF d[r] THEN <<>> ELSE <<r>>) \o cleanFrom(d, r + 1)
    IN  Only({cleanFrom(d, 0) : d \in {dirty}})

PoolNumClean(a) == Len(a.clean)
PoolIsClean(a, reg) == ~a.dirty[reg]

PoolFree(a, reg) ==
    IF a.err # "" THEN a
    ELSE IF ~a.dirty[reg] THEN Err(a, "Register is not dirty")
    ELSE [a EXCEPT !.dirty[reg] = FALSE, !.clean = Append(@, reg)]

PoolAllocate(a) ==
    IF a.err # "" THEN a
    ELSE IF a.clean = <<>> THEN Err(a, "No clean registers")
    ELSE [a EXCEPT !.dirty[Head(a.clean)] = TRUE, !.clean = Tail(@)]

(* allocator/placer.rs: Placer.  `placed` lists the items in the order in  *)
(* which they were added, each with its cycle and its cost.                *)
PlacerUsed(placed, t) ==
    LET RECURSIVE sum(_)
        sum(i) == IF i = 0 THEN 0
                  ELSE (IF placed[i].time = t THEN placed[i].cost ELSE 0) + sum(i - 1)
    IN  sum(Len(placed))

\* Placer::add_item: the first cycle from `time` on with room for `cost`.
PlacerTime(placed, cost, time) ==
    CHOOSE t \in time..(time + Len(placed)) :
        /\ PlacerUsed(placed, t) + cost <= BUDGET
        /\ \A u \in time..(t - 1) : PlacerUsed(placed, u) + cost > BUDGET

PlacerAdd(placed, item, cost, time) ==
    Append(placed, [item |-> item, time |-> PlacerTime(placed, cost, time), cost |-> cost])

\* The position (from 1) of the i-th added item in Placer::iter().
PlacerPos(placed, i) ==
    Cardinality({j \in 1..Len(placed) :
        \/ placed[j].time < placed[i].time
        \/ (placed[j].time = placed[i].time /\ j <= i)})

\* Placer::iter(): the items by cycle, and in a cycle in the order added.
PlacerIter(placed) ==
    [p \in 1..Len(placed) |->
        placed[CHOOSE i \in 1..Len(placed) : PlacerPos(placed, i) = p].item]

Spill(out_x, out_y) == <<"Spill", out_x, out_y>>
Node(node) == <<"Node", node, node>>

(* The dataflow graph given to allocate(): g.nodes are the hot-path nodes  *)
(* (the k-th has number NumInputs + k), g.variables the Variables of the   *)
(* values live on entry, g.outputs the values live on exit.                *)
NodeId(k) == NumInputs + k
DfNode(g, node) == g.nodes[node - NumInputs]
DfEffects == {0}

\* `keep_alives` of allocate(): the inputs of the node, followed by the
\* keep-alive set of a Guard in the order in which the HashSet yields it.
KeepAlivesInsOnly(nd) == nd.ins
KeepAlives(nd) == nd.ins \o nd.ka

\* allocate(), lines 253-260: the uses of the outputs are pushed first, then
\* those of the nodes from the last to the first.
RECURSIVE UsageFrom(_, _)
UsageFrom(g, k) ==
    IF k > Len(g.nodes) THEN g.outputs
    ELSE UsageFrom(g, k + 1) \o KeepAlives(g.nodes[k])

\* Allocator::new
AllocatorNew(g, usage) ==
    Only({[usage |-> usage,
           placed |-> <<>>,
           allocation |-> [n \in AllocNodes(g) |->
              IF n \in InputNodes /\ top[n] # 0 /\ g.variables[n][1] = "Register"
              THEN g.variables[n][2] ELSE Absent],
           read_times |-> [n \in AllocNodes(g) |-> Absent],
           write_times |-> [n \in AllocNodes(g) |->
              IF n \in InputNodes /\ top[n] # 0 THEN EARLY ELSE Absent],
           node_times |-> [n \in AllocNodes(g) |->
              IF n \in DfEffects THEN EARLY ELSE Absent],
           regs |-> held,
           dirty |-> [r \in all_registers |-> held[r] # Absent],
           clean |-> PoolNew([r \in all_registers |-> held[r] # Absent]),
           err |-> ""] :
        top \in {[n \in InputNodes |-> UsageTopmost(usage, n)]},
        \* The live-in value that is alive on entry and in register r.
        held \in {[r \in all_registers |->
                    LET S == {n \in InputNodes :
                                UsageTopmost(usage, n) # 0
                                /\ g.variables[n] = <<"Register", r>>}
                    IN  IF S = {} THEN Absent ELSE SetMax(S)]}})

\* Allocator::current_reg
current_reg(a, node) ==
    IF a.allocation[node] # Absent /\ a.regs[a.allocation[node]] = node
    THEN a.allocation[node]
    ELSE Absent

\* A pop_use that frees no register.
pop_use_NoFree(a) ==
    IF a.err # "" THEN a
    ELSE IF a.usage = <<>> THEN Err(a, "Incorrect usage information")
    ELSE [a EXCEPT !.usage = SubSeq(@, 1, Len(@) - 1)]

\* Allocator::pop_use; the popped node is the top of a.usage.
pop_use(a) ==
    IF a.err # "" THEN a
    ELSE IF a.usage = <<>> THEN Err(a, "Incorrect usage information")
    ELSE LET node == a.usage[Len(a.usage)]
             a1 == [a EXCEPT !.usage = SubSeq(@, 1, Len(@) - 1)]
         IN  IF UsageTopmost(a1.usage, node) = 0 /\ current_reg(a1, node) # Absent
             THEN PoolFree(a1, current_reg(a1, node))
             ELSE a1

RECURSIVE pop_uses(_, _)
pop_uses(a, k) ==
    IF k = 0 THEN a ELSE Only({pop_uses(b, k - 1) : b \in {pop_use(a)}})

\* The nodes that k calls of pop_use return, in that order.
PoppedNodes(usage, k) ==
    [i \in 1..(IF k <= Len(usage) THEN k ELSE Len(usage)) |-> usage[Len(usage) + 1 - i]]

\* Allocator::access
access(a, node, time) ==
    [a EXCEPT !.read_times[node] = Max2(IF @ = Absent THEN EARLY ELSE @, time)]

\* Allocator::free_a_register: the dirty register whose occupant is used
\* furthest in the future (its topmost use is the lowest in `usage`).
SpillCandidates(a) == {r \in all_registers : a.regs[r] # Absent /\ a.dirty[r]}

\* A choice of the dirty register whose occupant is used next.
RegisterToFree_Nearest(a) ==
    Only({CHOOSE r \in DOMAIN top :
            \A q \in DOMAIN top :
                top[r] > top[q] \/ (top[r] = top[q] /\ r <= q) :
          top \in {[r \in SpillCandidates(a) |-> UsageTopmost(a.usage, a.regs[r])]}})
RegisterToFree(a) ==
    Only({CHOOSE r \in DOMAIN top :
            \A q \in DOMAIN top :
                top[r] < top[q] \/ (top[r] = top[q] /\ r <= q) :
          top \in {[r \in SpillCandidates(a) |-> UsageTopmost(a.usage, a.regs[r])]}})

free_a_register(a) ==
    IF a.err # "" THEN a
    ELSE IF \E r \in SpillCandidates(a) : UsageTopmost(a.usage, a.regs[r]) = 0
    THEN Err(a, "Dirty register is unused")
    ELSE IF SpillCandidates(a) = {} THEN Err(a, "No register is dirty")
    ELSE PoolFree(a, RegisterToFree(a))

\* The occupant of the register that free_a_register() frees.
FreedNode(a) ==
    IF a.err # "" \/ SpillCandidates(a) = {} THEN Absent
    ELSE a.regs[RegisterToFree(a)]

\* The cycle of the item that was placed last.
LastTime(a) == a.placed[Len(a.placed)].time

\* spill_until without lines 151-152: the Spill is not recorded as an access.
spill_access_None(out_x, out_y, a) == a

\* spill_until, lines 151-152
spill_access(out_x, out_y, a) ==
    access(access(a, out_x, LastTime(a)), out_y, LastTime(a))

\* spill_until, lines 148-150
spill_place(out_x, out_y, a) ==
    IF a.err # "" THEN a
    ELSE Only({spill_access(out_x, out_y, b) : b \in
            {[a EXCEPT !.placed = PlacerAdd(@, Spill(out_x, out_y), SPILL_COST,
                Max2(a.write_times[out_x], a.write_times[out_y]))]}})

\* spill_until, lines 144 and 147
spill_y(out_x, a) ==
    Only({spill_place(out_x, out_y, b) :
            out_y \in {FreedNode(a)}, b \in {free_a_register(a)}})

\* spill_until, lines 143 and 146
spill_x(a) ==
    Only({spill_y(out_x, b) : out_x \in {FreedNode(a)}, b \in {free_a_register(a)}})

\* Allocator::spill_until
RECURSIVE spill_until(_, _)
spill_until(a, num_required) ==
    IF a.err # "" \/ PoolNumClean(a) >= num_required THEN a
    ELSE Only({spill_until(b, num_required) : b \in {spill_x(a)}})

RECURSIVE access_all(_, _, _, _)
access_all(a, nodes, i, time) ==
    IF i > Len(nodes) THEN a
    ELSE Only({access_all(b, nodes, i + 1, time) : b \in {access(a, nodes[i], time)}})

\* add_node, lines 168-171: bump `time` until the dependencies are available.
DepsTimeFrom(a, nd, i) ==
    LET RECURSIVE m(_)
        m(k) == IF k = 0 THEN EARLY ELSE Max2(a.node_times[nd.deps[k]], m(k - 1))
    IN  m(i)

DepsTimeEarly(a, nd) == EARLY
DepsTime(a, nd) == DepsTimeFrom(a, nd, Len(nd.deps))

\* add_node, lines 172-178: bump `time` until the operands are available.
InsTimeNoLatency(a, nd, time) ==
    LET RECURSIVE m(_)
        m(k) == IF k = 0 THEN time
                ELSE Max2(a.write_times[nd.ins[k]], m(k - 1))
    IN  m(Len(nd.ins))

InsTime(a, nd, time) ==
    LET RECURSIVE m(_)
        m(k) == IF k = 0 THEN time
                ELSE Max2(a.write_times[nd.ins[k]] + nd.lat[k], m(k - 1))
    IN  m(Len(nd.ins))

\* add_node, lines 183-189: bump `time` until the destination register, the
\* next one that the pool will hand out, is available.
RegTimeUnbumped(a, nd, time) == time
RegTime(a, nd, time) ==
    IF nd.out /\ a.regs[Head(a.clean)] # Absent
              /\ a.read_times[a.regs[Head(a.clean)]] # Absent
    THEN Max2(time, a.read_times[a.regs[Head(a.clean)]])
    ELSE time

\* add_node, lines 181-183
AllocateFor(node, a) ==
    [PoolAllocate(a) EXCEPT !.allocation[node] = Head(a.clean),
                            !.regs[Head(a.clean)] = node]

\* add_node, lines 190-193
FreeIfUnused(node, a) ==
    IF UsageTopmost(a.usage, node) = 0 THEN PoolFree(a, a.allocation[node]) ELSE a

\* add_node, lines 196-200
NodeResources(a, nd) ==
    nd.res + (IF \E i \in 1..Len(nd.ins) : current_reg(a, nd.ins[i]) = Absent
              THEN SLOT_COST ELSE 0)

\* add_node, lines 210-213: record when the output becomes available.
add_node_output(node, nd, a) ==
    IF nd.out
    THEN [access(a, node, a.node_times[node])
            EXCEPT !.write_times[node] = a.node_times[node] + nd.ol]
    ELSE a

\* add_node, lines 204-208: record the node's placement and when the inputs
\* were used.
add_node_record(node, nd, keep_alives, a) ==
    Only({add_node_output(node, nd, b) : b \in
        {access_all([a EXCEPT !.node_times[node] = LastTime(a)],
                    keep_alives, 1, LastTime(a))}})

\* add_node, lines 195-202
add_node_place(node, nd, keep_alives, time, a) ==
    Only({add_node_record(node, nd, keep_alives, b) : b \in
        {[a EXCEPT !.placed = PlacerAdd(@, Node(node), NodeResources(a, nd), time)]}})

\* add_node, lines 168-202, from the state after the spills.
add_node_timed(node, nd, keep_alives, a) ==
    IF a.err # "" THEN a
    ELSE IF \E i \in 1..Len(nd.deps) : a.node_times[nd.deps[i]] = Absent
    THEN Err(a, "node_times: missing key")
    ELSE IF Len(nd.ins) # Len(nd.lat)
    THEN Err(a, "assert_eq!(ins.len(), latencies.len())")
    ELSE IF \E i \in 1..Len(nd.ins) : a.write_times[nd.ins[i]] = Absent
    THEN Err(a, "write_times: missing key")
    ELSE Only({add_node_place(node, nd, keep_alives, time, b) :
            time \in {RegTime(a, nd, InsTime(a, nd, DepsTime(a, nd)))},
            b \in {IF nd.out THEN FreeIfUnused(node, AllocateFor(node, a)) ELSE a}})

\* add_node, line 167
add_node_spill(nd, a) == IF nd.out THEN spill_until(a, 1) ELSE a

\* Allocator::add_node
add_node(g, a, node, num_keep_alives) ==
    Only({add_node_timed(node, DfNode(g, node), keep_alives, c) :
            keep_alives \in {PoppedNodes(a.usage, num_keep_alives)},
            c \in {Only({add_node_spill(DfNode(g, node), b) :
                            b \in {pop_uses(a, num_keep_alives)}})}})

\* Allocator::finish: the state after the outputs are popped and the two
\* assertions.
finish_asserts(a) ==
    IF a.err # "" THEN a
    ELSE IF Len(a.usage) # 0 THEN Err(a, "assert_eq!(self.usage.len(), 0)")
    ELSE IF \E r \in all_registers : ~PoolIsClean(a, r)
    THEN Err(a, "assert!(all registers are clean)")
    ELSE a

finish(a, num_outputs) ==
    Only({finish_asserts(b) : b \in {pop_uses(a, num_outputs)}})

(***************************************************************************)
(* The dataflow graphs that are tried.  The operands of a node are the     *)
(* live-in values 1 and 2 and the latest value computed before it; a node  *)
(* with a side effect depends on the latest such node before it (on the    *)
(* entry node 0 when there is none).                                       *)
(***************************************************************************)
DfRec(op, ins, deps, out, lat, ol, res, ka) ==
    [op |-> op, ins |-> ins, deps |-> deps, out |-> out,
     lat |-> lat, ol |-> ol, res |-> res, ka |-> ka]

\* The latest node of `nodes` that has an output (0: none).
LatestValue(nodes) ==
    LET S == {k \in 1..Len(nodes) : nodes[k].out}
    IN  IF S = {} THEN 0 ELSE NodeId(SetMax(S))

\* The latest node of `nodes` that has a side effect (0: the entry node).
LatestEffect(nodes) ==
    LET S == {k \in 1..Len(nodes) : nodes[k].deps # <<>>}
    IN  IF S = {} THEN 0 ELSE NodeId(SetMax(S))

Ascending(lo, hi) == [i \in 1..(hi - lo + 1) |-> lo + i - 1]
Descending(lo, hi) == [i \in 1..(hi - lo + 1) |-> hi - i + 1]

\* The keep-alive set of a Guard is a HashSet: it holds the live-in values
\* from 2 on, which the set yields in either order, or the latest value.
GuardKeepAlives(pv) ==
    {Ascending(2, NumInputs), Descending(2, NumInputs)}
    \cup (IF pv = 0 THEN {} ELSE {<<pv>>})

NodeMenu(nodes) ==
    LET pv == LatestValue(nodes)
        vals == IF pv = 0 THEN {1} ELSE {1, pv}
        dep == LatestEffect(nodes)
    IN  {DfRec("Constant", <<>>, <<>>, TRUE, <<>>, 0, 1, <<>>)}
        \cup {DfRec("Binary", <<x, 2>>, <<>>, TRUE, <<0, 0>>, 3, 2, <<>>) : x \in vals}
        \cup {DfRec("Load", <<x>>, <<dep>>, TRUE, <<0>>, 2, 2, <<>>) : x \in vals}
        \cup {DfRec("Store", <<2, 1>>, <<dep>>, TRUE, <<0, 0>>, 1, 2, <<>>)}
        \cup {DfRec("Guard", <<x>>, <<dep>>, FALSE, <<1>>, 0, 1, <<>>) : x \in vals}
        \cup {DfRec("Guard", <<1>>, <<dep>>, FALSE, <<1>>, 0, 1, ka) :
                    ka \in GuardKeepAlives(pv)}
        \cup {DfRec("Debug", <<1>>, <<dep>>, FALSE, <<0>>, 0, 1, <<>>)}

RECURSIVE NodeSeqs(_)
NodeSeqs(n) ==
    IF n = 0 THEN {<<>>}
    ELSE UNION {{Append(nodes, nd) : nd \in NodeMenu(nodes)} : nodes \in NodeSeqs(n - 1)}

\* A live-in value is in the register of its number, or in a slot when
\* there are more live-in values than registers.
InputVariable(n) ==
    IF n <= NUM_REGISTERS THEN <<"Register", n - 1>>
    ELSE <<"Slot", n - NUM_REGISTERS - 1>>

\* The values live on exit: every live-in value from `first` on, followed
\* by the latest computed value or, with `all`, preceded by every computed
\* value.
DfOutputs(nodes, first, all) ==
    IF all
    THEN SelectSeq([k \in 1..Len(nodes) |-> NodeId(k)],
                   LAMBDA n : nodes[n - NumInputs].out)
         \o Ascending(first, NumInputs)
    ELSE Ascending(first, NumInputs)
         \o (IF LatestValue(nodes) = 0 THEN <<>> ELSE <<LatestValue(nodes)>>)

DataflowsOf(seqs, lives) ==
    {[nodes |-> nodes,
      variables |-> [n \in InputNodes |-> InputVariable(n)],
      outputs |-> DfOutputs(nodes, live[1], live[2])] :
        nodes \in seqs, live \in lives}

LiveOnExit == {<<1, FALSE>>, <<3, FALSE>>, <<NumInputs + 1, FALSE>>}

Dataflows == DataflowsOf(NodeSeqs(MaxNodes), LiveOnExit)

\* The nodes from the last to the first, each with the number of its inputs
\* only.
NodesRev_InsOnly(g) ==
    [i \in 1..Len(g.nodes) |->
        <<NodeId(Len(g.nodes) + 1 - i), Len(g.nodes[Len(g.nodes) + 1 - i].ins)>>]

\* allocate(), lines 255-260: the nodes from the last to the first, each with
\* the number of its keep_alives.
NodesRev(g) ==
    [i \in 1..Len(g.nodes) |->
        <<NodeId(Len(g.nodes) + 1 - i), Len(KeepAlives(g.nodes[Len(g.nodes) + 1 - i]))>>]

\* allocate(), lines 253-262
AllocStart(graphs) ==
    /\ df \in graphs
    /\ \E usage \in {UsageFrom(df, 1)} : al = AllocatorNew(df, usage)
    /\ nodes_rev = NodesRev(df)
    /\ alPc = "adding"

AllocInit == AllocStart(Dataflows) /\ SimIdle /\ LowIdle /\ WalkIdle /\ PatchIdle /\ RestIdle

\* allocate(), lines 263-265: one turn of the loop.
AllocAddNode ==
    /\ alPc = "adding"
    /\ nodes_rev # <<>>
    /\ al' = add_node(df, al, nodes_rev[Len(nodes_rev)][1], nodes_rev[Len(nodes_rev)][2])
    /\ al'.err = ""
    /\ nodes_rev' = SubSeq(nodes_rev, 1, Len(nodes_rev) - 1)
    /\ UNCHANGED <<df, alPc, simVars, lowVars, walkVars, patchVars, restVars>>

\* A turn of the loop in which an expect or an assertion fails.
AllocAddNodePanic ==
    /\ alPc = "adding"
    /\ nodes_rev # <<>>
    /\ al' = add_node(df, al, nodes_rev[Len(nodes_rev)][1], nodes_rev[Len(nodes_rev)][2])
    /\ al'.err # ""
    /\ alPc' = "panicked"
    /\ UNCHANGED <<df, nodes_rev, simVars, lowVars, walkVars, patchVars, restVars>>

\* allocate(), line 266
AllocFinish ==
    /\ alPc = "adding"
    /\ nodes_rev = <<>>
    /\ al' = finish(al, Len(df.outputs))
    /\ al'.err = ""
    /\ alPc' = "finished"
    /\ UNCHANGED <<df, nodes_rev, simVars, lowVars, walkVars, patchVars, restVars>>

AllocFinishPanic ==
    /\ alPc = "adding"
    /\ nodes_rev = <<>>
    /\ al' = finish(al, Len(df.outputs))
    /\ al'.err # ""
    /\ alPc' = "panicked"
    /\ UNCHANGED <<df, nodes_rev, simVars, lowVars, walkVars, patchVars, restVars>>

AllocNext ==
    \/ AllocAddNode
    \/ AllocAddNodePanic
    \/ AllocFinish
    \/ AllocFinishPanic

SpecAlloc == AllocInit /\ [][AllocNext]_vars

(***************************************************************************)
(* allocate() as a whole, and what it returns.                             *)
(***************************************************************************)
RECURSIVE AddNodes(_, _, _)
AddNodes(g, a, rev) ==
    IF rev = <<>> THEN a
    ELSE Only({AddNodes(g, b, SubSeq(rev, 1, Len(rev) - 1)) :
                b \in {add_node(g, a, rev[Len(rev)][1], rev[Len(rev)][2])}})

allocate(g) ==
    Only({finish(b, Len(g.outputs)) :
            b \in {Only({AddNodes(g, a, NodesRev(g)) :
                            a \in {AllocatorNew(g, UsageFrom(g, 1))}})}})

\* The graph g when every HashSet of keep-alives yields the opposite order.
Reverse(s) == [i \in 1..Len(s) |-> s[Len(s) + 1 - i]]
OtherHashOrder(g) ==
    [g EXCEPT !.nodes = [k \in 1..Len(g.nodes) |->
        [g.nodes[k] EXCEPT !.ka = Reverse(@)]]]

(***************************************************************************)
(* Properties of the result of allocate().                                 *)
(***************************************************************************)
Finished == alPc = "finished"
Instructions == PlacerIter(al.placed)
HotNodes == {NodeId(k) : k \in 1..Len(df.nodes)}

\* The position of an instruction in the returned order, and its cycle.
Pos(item) == CHOOSE p \in 1..Len(Instructions) : Instructions[p] = item
ItemTime(item) ==
    al.placed[CHOOSE i \in 1..Len(al.placed) : al.placed[i].item = item].time

\* C1: in the returned order every node comes after each node it depends on.
C1_DepOrder ==
    Finished =>
        \A n \in HotNodes : \A i \in 1..Len(DfNode(df, n).deps) :
            DfNode(df, n).deps[i] # 0 =>
                Pos(Node(DfNode(df, n).deps[i])) < Pos(Node(n))

\* A Store that depends on a Load which waits for its operand: the operands of
\* the Store are ready from the start.
C1_Witness ==
    /\ Finished
    /\ \E n \in HotNodes :
        /\ DfNode(df, n).op = "Store"
        /\ DfNode(df, n).deps[1] # 0
        /\ DfNode(df, DfNode(df, n).deps[1]).op = "Load"
        /\ al.node_times[DfNode(df, n).deps[1]] > EARLY

\* C2: every node is placed no earlier than write_time + latency of each of
\* its operands, and after the node that computes the operand.
C2_OperandsDefined ==
    Finished =>
        \A n \in HotNodes : \A i \in 1..Len(DfNode(df, n).ins) :
            LET in_ == DfNode(df, n).ins[i]
            IN  /\ al.write_times[in_] # Absent
                /\ al.node_times[n] >= al.write_times[in_] + DfNode(df, n).lat[i]
                /\ in_ \in HotNodes => Pos(Node(in_)) < Pos(Node(n))

\* A Guard that tests a computed value, placed exactly when the value and the
\* latency of the operand allow.
C2_Witness ==
    /\ Finished
    /\ \E n \in HotNodes :
        /\ DfNode(df, n).op = "Guard"
        /\ DfNode(df, n).ins[1] \in HotNodes
        /\ al.node_times[n] = al.write_times[DfNode(df, n).ins[1]] + 1
        /\ al.node_times[n] > al.node_times[DfNode(df, n).ins[1]]

\* The values that are given a register, where each is defined (0: on entry)
\* and where it is spilled (0: nowhere).
Allocated == {v \in AllocNodes(df) : al.allocation[v] # Absent}
DefPos(v) == IF v \in InputNodes THEN 0 ELSE Pos(Node(v))
SpillsOf(v) ==
    {p \in 1..Len(Instructions) :
        Instructions[p][1] = "Spill" /\ v \in {Instructions[p][2], Instructions[p][3]}}
SpillPos(v) == IF SpillsOf(v) = {} THEN 0 ELSE SetMax(SpillsOf(v))

\* The instructions that read v from its register: its Spill and the nodes
\* that come before it, every node that needs v if it is not spilled.
Readers(v) == {n \in HotNodes : v \in Range(KeepAlives(DfNode(df, n)))}
RegisterReads(v) ==
    {Pos(Node(n)) : n \in {m \in Readers(v) :
                            SpillPos(v) = 0 \/ Pos(Node(m)) < SpillPos(v)}}
    \cup SpillsOf(v)

\* The last position at which v is needed in its register; the end of the
\* path if v is live on exit in its register.
LastRegisterUse(v) ==
    IF SpillPos(v) = 0 /\ v \in Range(df.outputs)
    THEN Len(Instructions) + 1
    ELSE SetMax({DefPos(v)} \cup RegisterReads(v))

\* C3: two values with the same register are not in it at the same time, and
\* the later one is placed no earlier than any read of the earlier one from
\* the register.
C3_RegisterDisjointness ==
    Finished =>
        \A v1 \in Allocated : \A v2 \in Allocated :
            (v1 # v2 /\ al.allocation[v1] = al.allocation[v2]
                     /\ DefPos(v1) <= DefPos(v2)) =>
                /\ LastRegisterUse(v1) <= DefPos(v2)
                /\ \A p \in RegisterReads(v1) :
                        ItemTime(Instructions[p]) <= al.node_times[v2]

\* A value takes the register of a value whose last reader waited for its
\* operand, and is placed in the cycle of that reader.
C3_Witness ==
    /\ Finished
    /\ \E v1 \in Allocated : \E v2 \in Allocated \cap HotNodes :
        /\ v1 # v2
        /\ al.allocation[v1] = al.allocation[v2]
        /\ DefPos(v1) < DefPos(v2)
        /\ DfNode(df, v2).ins = <<>>
        /\ \E p \in RegisterReads(v1) :
            /\ ItemTime(Instructions[p]) > EARLY
            /\ ItemTime(Instructions[p]) = al.node_times[v2]

\* C7: the result of allocate() is the same whatever order the HashSets of
\* keep-alives yield.
C7_Determinism ==
    Finished =>
        /\ allocate(OtherHashOrder(df)).err = ""
        /\ PlacerIter(allocate(OtherHashOrder(df)).placed) = Instructions
        /\ allocate(OtherHashOrder(df)).allocation = al.allocation

\* C9: the registers that the allocator names are 13 distinct machine
\* registers, none of them POOL, TEMP or the stack pointer.
C9_NoPoolOrTemp ==
    /\ NUM_REGISTERS = 13
    /\ \A i \in 1..NUM_REGISTERS : \A j \in 1..NUM_REGISTERS :
            i # j => ALLOCATABLE_REGISTERS[i] # ALLOCATABLE_REGISTERS[j]
    /\ \A v \in Allocated :
        /\ al.allocation[v] \in all_registers
        /\ MachineRegister(al.allocation[v]) \notin {POOL, TEMP, "RSP"}

\* Every register is given to some value, one of them computed on the path.
C9_Witness ==
    /\ Finished
    /\ \A r \in all_registers : \E v \in Allocated : al.allocation[v] = r
    /\ Allocated \cap HotNodes # {}

(***************************************************************************)
(* The x86-64 lowerer (target/x86_64/lowerer.rs).                          *)
(* A code::Value is <<"Register", index>> or <<"Slot", number>>; the       *)
(* lowerer's Value names a machine register instead of an index.  The      *)
(* assembler buffer `a` is the sequence of the instructions assembled.     *)
(***************************************************************************)
LowRegisters == {0, 1}
LowSlots == {0, 1}
CodeValues ==
    {<<"Register", r>> : r \in LowRegisters} \cup {<<"Slot", n>> : n \in LowSlots}
Precisions == {"P32", "P64"}
PlainBinaryOps == {"Add", "Sub", "Mul", "And", "Or", "Xor"}
ShiftOps == {"Lsl", "Lsr", "Asr"}
CompareOps == {"Lt", "Ult", "Eq"}
SelectOps == {"Max", "Min"}
BinaryOps == PlainBinaryOps \cup ShiftOps \cup CompareOps \cup SelectOps
\* The machine register of the shift count (Register::RC), and its index.
RC == "RC"
RCIndex == CHOOSE r \in all_registers : MachineRegister(r) = RC
\* The registers that the operands of an operation are drawn from.
OperandRegisters(op) == IF op \in ShiftOps THEN {0, RCIndex} ELSE LowRegisters
OperandValues(op) ==
    {<<"Register", r>> : r \in OperandRegisters(op)} \cup {<<"Slot", n>> : n \in LowSlots}

\* impl From<code::Value> for Value
LowValue(v) == IF v[1] = "Register" THEN <<"Register", MachineRegister(v[2])>> ELSE v

\* Lowerer::move_
move_(a, dest, src) ==
    IF dest # src THEN Append(a, <<"move", "P64", dest, src>>) ELSE a

\* Lowerer::move_away_from: the code it assembles and the Value it returns.
move_away_from(a, src, dest) ==
    IF src = <<"Register", dest>> THEN move_(a, TEMP, dest) ELSE a

moved_away_from_Kept(src, dest) == src
moved_away_from(src, dest) ==
    IF src = <<"Register", dest>> THEN <<"Register", TEMP>> ELSE src

\* `x as i32`: the low bits of x, read as a signed offset.
AsI32(x) ==
    LET y == x % Pow2(DispBits)
    IN  IF y >= Pow2(DispBits - 1) THEN y - Pow2(DispBits) ELSE y

\* Lowerer::slot_address
slot_address(slot) == <<POOL, AsI32((slot + 1) * 8)>>

\* Lowerer::store_slot
store_slot(a, slot, src) == Append(a, <<"store", "P64", slot_address(slot), src>>)

\* Lowerer::load_slot
load_slot(a, dest, slot) == Append(a, <<"load", "P64", dest, slot_address(slot)>>)

\* Lowerer::src_to_register: the code it assembles and the Register it returns.
src_to_register(a, src, reg) ==
    IF src[1] = "Register" THEN a ELSE load_slot(a, reg, src[2])

src_register(src, reg) == IF src[1] = "Register" THEN src[2] ELSE reg

\* Lowerer::value_op
value_op(a, op, prec, dest, src) ==
    IF src[1] = "Register"
    THEN Append(a, <<"op", op, prec, dest, src[2]>>)
    ELSE Append(a, <<"load_op", op, prec, dest, slot_address(src[2])>>)

\* The callbacks that lower_binary_op gives for Add, Sub, Mul, And, Or, Xor.
binary_callback(a, op, prec, dest, src) ==
    IF op # "Mul" THEN value_op(a, op, prec, dest, src)
    ELSE IF src[1] = "Register"
    THEN Append(a, <<"mul", prec, dest, src[2]>>)
    ELSE Append(a, <<"load_mul", prec, dest, slot_address(src[2])>>)

\* Lowerer::asymmetric_binary
asymmetric_binary(a, op, prec, dest, src1, src2) ==
    binary_callback(
        move_(src_to_register(move_away_from(a, src2, dest), src1, dest),
              dest, src_register(src1, dest)),
        op, prec, dest, moved_away_from(src2, dest))

\* Lowerer::symmetric_binary
symmetric_binary(a, op, prec, dest, src1, src2) ==
    IF src1[1] = "Slot"
    THEN asymmetric_binary(a, op, prec, dest, src2, src1)
    ELSE IF src2 = <<"Register", dest>>
    THEN asymmetric_binary(a, op, prec, dest, src2, src1)
    ELSE asymmetric_binary(a, op, prec, dest, src1, src2)

\* A shift that never saves RC.
shift_saves_rc_Never(src2) == FALSE

\* Lowerer::shift_binary: `save_rc`
shift_saves_rc(src2) == src2 # <<"Register", RC>>

\* Lowerer::shift_binary: the code up to the shift instruction.
shift_operands(a, dest, src1, src2) ==
    move_(src_to_register(move_(src_to_register(a, src2, RC),
                                RC, src_register(src2, RC)),
                          src1, dest),
          dest, src_register(src1, dest))

\* Lowerer::shift_binary
shift_binary(a, op, prec, dest, src1, src2) ==
    IF shift_saves_rc(src2)
    THEN move_(Append(shift_operands(move_(a, TEMP, RC), dest, src1, src2),
                      <<"shift", op, prec, dest>>),
               RC, TEMP)
    ELSE Append(shift_operands(a, dest, src1, src2), <<"shift", op, prec, dest>>)

\* Lowerer::value_move_if
value_move_if(a, cc, is_true, prec, dest, src) ==
    IF src[1] = "Register"
    THEN Append(a, <<"move_if", cc, is_true, prec, dest, src[2]>>)
    ELSE Append(a, <<"load_if", cc, is_true, prec, dest, slot_address(src[2])>>)

CompareConditionSigned(op) == IF op = "Min" THEN "G" ELSE "L"
\* The Condition that lower_binary_op tests for each comparison.
CompareCondition(op) ==
    CASE op = "Lt" -> "L" [] op = "Ult" -> "B" [] op = "Eq" -> "Z"
      [] op = "Max" -> "L" [] op = "Min" -> "G"

\* The callbacks that lower_binary_op gives for Lt, Ult and Eq.
boolean_callback(a, op, prec, dest) ==
    Append(Append(a, <<"const_preserving_flags", prec, dest, -1>>),
           <<"load_if", CompareCondition(op), FALSE, prec, dest, <<POOL, 0>>>>)

\* The callbacks that lower_binary_op gives for Max and Min.
select_callback(a, op, prec, dest, src1, src2) ==
    value_move_if(move_(a, dest, src1), CompareCondition(op), TRUE, prec, dest, src2)

\* Lowerer::compare_binary
compare_binary(a, op, prec, dest, src1, src2) ==
    IF op \in CompareOps
    THEN boolean_callback(
            value_op(src_to_register(a, src1, TEMP), "Cmp", prec,
                     src_register(src1, TEMP), src2),
            op, prec, dest)
    ELSE select_callback(
            value_op(src_to_register(a, src1, TEMP), "Cmp", prec,
                     src_register(src1, TEMP), src2),
            op, prec, dest, src_register(src1, TEMP), src2)

\* Lowerer::lower_binary_op
lower_binary_op(a, op, prec, dest, src1, src2) ==
    CASE op = "Sub" ->
            asymmetric_binary(a, op, prec, MachineRegister(dest),
                              LowValue(src1), LowValue(src2))
      [] op \in ShiftOps ->
            shift_binary(a, op, prec, MachineRegister(dest),
                         LowValue(src1), LowValue(src2))
      [] op \in CompareOps \cup SelectOps ->
            compare_binary(a, op, prec, MachineRegister(dest),
                           LowValue(src1), LowValue(src2))
      [] OTHER ->
            symmetric_binary(a, op, prec, MachineRegister(dest),
                             LowValue(src1), LowValue(src2))

\* Lowerer::const_ and Lowerer::const_op
const_(a, prec, dest, value) == Append(a, <<"const", prec, dest, value>>)
const_op(a, op, prec, dest, value) == Append(a, <<"const_op", op, prec, dest, value>>)

UnaryOps == {"Abs", "Negate", "Not"}

\* The Condition on which Abs takes src back.
AbsConditionGE == "GE"
AbsCondition == "L"

\* Lowerer::lower_unary_op
lower_unary_op(a, op, prec, dest, src) ==
    CASE op = "Abs" ->
            value_move_if(
                value_op(const_(move_away_from(a, src, dest), prec, dest, 0),
                         "Sub", prec, dest, moved_away_from(src, dest)),
                AbsCondition, TRUE, prec, dest, moved_away_from(src, dest))
      [] op = "Negate" ->
            value_op(const_(move_away_from(a, src, dest), prec, dest, 0),
                     "Sub", prec, dest, moved_away_from(src, dest))
      [] op = "Not" ->
            const_op(move_(src_to_register(a, src, dest), dest, src_register(src, dest)),
                     "Xor", prec, dest, -1)

\* target/x86_64/mod.rs: the System V amd64 calling convention.
CALLEE_SAVES == <<"RB", "RBP", "R12", "R13", "R14", "R15">>
ARGUMENTS == <<"RDI", "RSI", "RD", "RC", "R8", "R9">>
RESULTS == <<"RA", "RD">>
\* target/mod.rs: the register that holds the state index.
STATE_INDEX == MachineRegister(0)

RECURSIVE push_all(_, _, _)
\* `for &r in &CALLEE_SAVES { self.a.push(r); }`, from the i-th on.
push_all(a, regs, i) ==
    IF i > Len(regs) THEN a ELSE push_all(Append(a, <<"push", regs[i]>>), regs, i + 1)

RECURSIVE pop_all_rev(_, _, _)
\* `for &r in CALLEE_SAVES.iter().rev() { self.a.pop(r); }`, from the i-th down.
pop_all_rev(a, regs, i) ==
    IF i = 0 THEN a ELSE pop_all_rev(Append(a, <<"pop", regs[i]>>), regs, i - 1)

\* `CALLEE_SAVES.len() & 1 != 1`
Realigns == Len(CALLEE_SAVES) % 2 # 1

\* Lowerer::lower_prologue
lower_prologue(a) ==
    LET a1 == IF Realigns THEN Append(a, <<"push", CALLEE_SAVES[1]>>) ELSE a
    IN  move_(move_(push_all(a1, CALLEE_SAVES, 1), POOL, ARGUMENTS[1]),
              STATE_INDEX, ARGUMENTS[2])

\* A lower_epilogue that pops the saved registers only.
lower_epilogue_Unaligned(a) ==
    Append(pop_all_rev(move_(a, RESULTS[1], STATE_INDEX),
                       CALLEE_SAVES, Len(CALLEE_SAVES)), <<"ret">>)
\* Lowerer::lower_epilogue
lower_epilogue(a) ==
    LET a1 == pop_all_rev(move_(a, RESULTS[1], STATE_INDEX),
                          CALLEE_SAVES, Len(CALLEE_SAVES))
        a2 == IF Realigns THEN Append(a1, <<"pop", CALLEE_SAVES[1]>>) ELSE a1
    IN  Append(a2, <<"ret">>)

\* Lowerer::lower_action for Action::Move
lower_move(a, dest, src) ==
    IF dest[1] = "Register"
    THEN IF src[1] = "Register"
         THEN move_(a, dest[2], src[2])
         ELSE load_slot(a, dest[2], src[2])
    ELSE store_slot(src_to_register(a, src, TEMP), dest[2], src_register(src, TEMP))

TestOps == {"Bits", "Lt", "Ge", "Ult", "Uge", "Eq", "Ne", "Always"}

\* Lowerer::jump_if: the branch is assembled and its patch site is pushed
\* on the label.
jump_if(a, cc, is_true, target) == Append(a, <<"jump_if", cc, is_true, target>>)

\* A lower_test_op that tests the signed conditions for Ult and Uge.
TestConditionSigned(op) ==
    CASE op \in {"Bits", "Eq"} -> "Z" [] op = "Ne" -> "NZ"
      [] op \in {"Lt", "Ult"} -> "L" [] op \in {"Ge", "Uge"} -> "GE"
\* The Condition that lower_test_op gives jump_if for each TestOp.
TestCondition(op) ==
    CASE op \in {"Bits", "Eq"} -> "Z" [] op = "Ne" -> "NZ"
      [] op = "Lt" -> "L" [] op = "Ge" -> "GE"
      [] op = "Ult" -> "B" [] op = "Uge" -> "AE"

\* Lowerer::lower_test_op
lower_test_op(a, op, prec, discriminant, mask, value, false_label) ==
    CASE op = "Bits" ->
            jump_if(const_op(value_op(const_(a, prec, TEMP, mask),
                                      "And", prec, TEMP, discriminant),
                             "Cmp", prec, TEMP, value),
                    TestCondition(op), FALSE, false_label)
      [] op = "Always" -> a
      [] OTHER ->
            jump_if(const_op(src_to_register(a, discriminant, TEMP),
                             "Cmp", prec, src_register(discriminant, TEMP), value),
                    TestCondition(op), FALSE, false_label)

(***************************************************************************)
(* The machine: what the assembled instructions do.  A word has W64 bits,  *)
(* a P32 operation works on the low W32 bits and zero-extends its result.  *)
(***************************************************************************)
PrecBits(prec) == IF prec = "P32" THEN W32 ELSE W64

ALU(op, prec, x, y) ==
    LET m == Pow2(PrecBits(prec))
        a == x % m
        b == y % m
    IN  CASE op = "Add" -> (a + b) % m
          [] op = "Sub" -> (a - b + m) % m
          [] op = "Mul" -> (a * b) % m
          [] op = "And" -> BitAnd(a, b)
          [] op = "Or"  -> a + b - BitAnd(a, b)
          [] op = "Xor" -> a + b - 2 * BitAnd(a, b)
          [] op = "Cmp" -> x

\* A word of the precision read as a signed number.
Signed(prec, x) ==
    IF 2 * (x % Pow2(PrecBits(prec))) >= Pow2(PrecBits(prec))
    THEN (x % Pow2(PrecBits(prec))) - Pow2(PrecBits(prec))
    ELSE x % Pow2(PrecBits(prec))

\* The flags: z is ZF, b is CF, l is SF # OF.  Nothing is known of them
\* after an instruction that leaves them undefined.
NoFlags == [z |-> "undefined", b |-> "undefined", l |-> "undefined"]
FlagsOf(op, prec, x, y) ==
    LET m == Pow2(PrecBits(prec))
    IN  CASE op \in {"Sub", "Cmp"} ->
                [z |-> x % m = y % m, b |-> x % m < y % m,
                 l |-> Signed(prec, x) < Signed(prec, y)]
          [] op = "Add" ->
                [z |-> ALU(op, prec, x, y) = 0, b |-> (x % m) + (y % m) >= m,
                 l |-> Signed(prec, x) + Signed(prec, y) < 0]
          [] op \in {"And", "Or", "Xor"} ->
                [z |-> ALU(op, prec, x, y) = 0, b |-> FALSE,
                 l |-> Signed(prec, ALU(op, prec, x, y)) < 0]
          [] OTHER -> NoFlags

\* Whether Condition cc has the truth value is_true.
ConditionIs(flags, cc, is_true) ==
    is_true = (CASE cc = "Z" -> flags.z
                 [] cc = "NZ" -> ~flags.z
                 [] cc = "L" -> flags.l
                 [] cc = "GE" -> ~flags.l
                 [] cc = "G" -> ~flags.l /\ ~flags.z
                 [] cc = "B" -> flags.b
                 [] cc = "AE" -> ~flags.b)

\* An ALU instruction on register dest and the word y.
ExecALU(m, op, prec, dest, y) ==
    [m EXCEPT !.regs[dest] = ALU(op, prec, @, y),
              !.flags = FlagsOf(op, prec, m.regs[dest], y)]

\* A conditional move of the word y to register dest; the destination of a
\* P32 move is zero-extended whether or not the move happens.
ExecMoveIf(m, cc, is_true, prec, dest, y) ==
    [m EXCEPT !.regs[dest] =
        (IF ConditionIs(m.flags, cc, is_true) THEN y ELSE @) % Pow2(PrecBits(prec))]

\* The shift instructions: the count is CL reduced modulo the width of the
\* operation (x86 keeps its low 5 or 6 bits).
ShiftALU(op, prec, x, count) ==
    LET m == Pow2(PrecBits(prec))
        a == x % m
        n == count % PrecBits(prec)
    IN  CASE op = "Lsl" -> (a * Pow2(n)) % m
          [] op = "Lsr" -> a \div Pow2(n)
          [] op = "Asr" -> IF 2 * a >= m THEN m - 1 - ((m - 1 - a) \div Pow2(n))
                           ELSE a \div Pow2(n)

Exec(m, ins) ==
    CASE ins[1] = "move" -> [m EXCEPT !.regs[ins[3]] = m.regs[ins[4]]]
      [] ins[1] = "load" -> [m EXCEPT !.regs[ins[3]] = m.mem[ins[4][2]]]
      [] ins[1] = "store" -> [m EXCEPT !.mem[ins[3][2]] = m.regs[ins[4]]]
      [] ins[1] = "push" -> [m EXCEPT !.stack = Append(m.stack, m.regs[ins[2]])]
      [] ins[1] = "pop" ->
            IF m.stack = <<>> THEN m
            ELSE [m EXCEPT !.regs[ins[2]] = m.stack[Len(m.stack)],
                           !.stack = SubSeq(m.stack, 1, Len(m.stack) - 1)]
      [] ins[1] = "ret" ->
            IF m.stack = <<>> THEN m
            ELSE [m EXCEPT !.ret = m.stack[Len(m.stack)],
                           !.stack = SubSeq(m.stack, 1, Len(m.stack) - 1)]
      [] ins[1] = "op" -> ExecALU(m, ins[2], ins[3], ins[4], m.regs[ins[5]])
      [] ins[1] = "load_op" -> ExecALU(m, ins[2], ins[3], ins[4], m.mem[ins[5][2]])
      [] ins[1] = "mul" ->
            [m EXCEPT !.regs[ins[3]] = ALU("Mul", ins[2], @, m.regs[ins[4]]),
                      !.flags = NoFlags]
      [] ins[1] = "load_mul" ->
            [m EXCEPT !.regs[ins[3]] = ALU("Mul", ins[2], @, m.mem[ins[4][2]]),
                      !.flags = NoFlags]
      [] ins[1] = "shift" ->
            [m EXCEPT !.regs[ins[4]] = ShiftALU(ins[2], ins[3], @, m.regs[RC]),
                      !.flags = NoFlags]
      [] ins[1] = "const" ->
            [m EXCEPT !.regs[ins[3]] = ins[4] % Pow2(PrecBits(ins[2])),
                      !.flags = NoFlags]
      [] ins[1] = "const_op" ->
            ExecALU(m, ins[2], ins[3], ins[4], ins[5] % Pow2(PrecBits(ins[3])))
      [] ins[1] = "jump_if" ->
            [m EXCEPT !.taken = ConditionIs(m.flags, ins[2], ins[3])]
      [] ins[1] = "const_preserving_flags" ->
            [m EXCEPT !.regs[ins[3]] = ins[4] % Pow2(PrecBits(ins[2]))]
      [] ins[1] = "move_if" ->
            ExecMoveIf(m, ins[2], ins[3], ins[4], ins[5], m.regs[ins[6]])
      [] ins[1] = "load_if" ->
            ExecMoveIf(m, ins[2], ins[3], ins[4], ins[5], m.mem[ins[6][2]])

\* The word that the caller's call pushed, and the ret field of a machine
\* that has not returned.
ReturnAddress == "return address"
NotReturned == "running"
\* RSP after the call: 8 below a multiple of 16, and 8 lower for each word
\* pushed since.
EntryRSP == 16 * 8 + 8
Rsp(m) == EntryRSP - 8 * (Len(m.stack) - 1)

\* The machines that are tried: the operand registers, TEMP, and the pool
\* with its zero word and the slots.
MachineRegs ==
    {MachineRegister(r) : r \in LowRegisters} \cup {RC, TEMP, POOL}
    \cup Range(CALLEE_SAVES) \cup {ARGUMENTS[1], ARGUMENTS[2]}
\* The slots that a Move is tried on: those whose (slot + 1) * 8 has a bit
\* within the offset's width.
MoveSlots == 0..(Pow2(DispBits - 3) - 1)
MoveValues ==
    {<<"Register", r>> : r \in LowRegisters} \cup {<<"Slot", n>> : n \in MoveSlots}
PoolOffsets == {0} \cup {slot_address(n)[2] : n \in LowSlots \cup MoveSlots}
RegisterContents(r) ==
    CASE r = MachineRegister(0) -> {3, 14}
      [] r = MachineRegister(1) -> {5, 9}
      [] r = RC -> {1}
      [] r = TEMP -> {7}
      [] r = "RB" -> {2}
      [] r = "RBP" -> {4}
      [] r = "R13" -> {8}
      [] r = "R14" -> {11}
      [] r = "R15" -> {12}
      [] r = "RDI" -> {6}
      [] r = "RSI" -> {10}
      [] OTHER -> {0}
PoolContents(o) ==
    CASE o = slot_address(0)[2] -> {6, 13}
      [] o = slot_address(1)[2] -> {1, 10}
      [] OTHER -> {0}
Machines ==
    {[regs |-> regs, mem |-> mem, flags |-> NoFlags, taken |-> FALSE,
      stack |-> <<ReturnAddress>>, ret |-> NotReturned] :
        regs \in {[r \in MachineRegs |->
                        CASE r = MachineRegister(0) -> x
                          [] r = MachineRegister(1) -> y
                          [] OTHER -> CHOOSE c \in RegisterContents(r) : TRUE] :
                    x \in RegisterContents(MachineRegister(0)),
                    y \in RegisterContents(MachineRegister(1))},
        mem \in {[o \in PoolOffsets |->
                        CASE o = slot_address(0)[2] -> x
                          [] o = slot_address(1)[2] -> y
                          [] OTHER -> CHOOSE c \in PoolContents(o) : TRUE] :
                    x \in PoolContents(slot_address(0)[2]),
                    y \in PoolContents(slot_address(1)[2])}}

\* The content of a code::Value in machine m.
ValueIn(m, v) ==
    IF v[1] = "Register" THEN m.regs[MachineRegister(v[2])]
    ELSE m.mem[slot_address(v[2])[2]]

LowInit ==
    /\ machine \in Machines
    /\ lowering = Idle
    /\ loPc = "ready"
    /\ SimIdle /\ AllocIdle /\ WalkIdle /\ PatchIdle /\ RestIdle

\* Lowerer::lower_action for Action::Binary
LowerBinary ==
    /\ loPc = "ready"
    /\ \E op \in BinaryOps, prec \in Precisions :
       \E dest \in OperandRegisters(op),
          src1 \in OperandValues(op), src2 \in OperandValues(op) :
        lowering' = [action |-> "Binary", op |-> op, prec |-> prec, dest |-> dest,
                     src1 |-> src1, src2 |-> src2, imm |-> 0,
                     code |-> lower_binary_op(<<>>, op, prec, dest, src1, src2),
                     ip |-> 1, entry |-> machine]
    /\ loPc' = "running"
    /\ UNCHANGED <<machine, simVars, allocVars, walkVars, patchVars, restVars>>

\* Lowerer::lower_action for Action::Unary
LowerUnary ==
    /\ loPc = "ready"
    /\ \E op \in UnaryOps, prec \in Precisions, dest \in LowRegisters, src \in CodeValues :
        lowering' = [action |-> "Unary", op |-> op, prec |-> prec, dest |-> dest,
                     src1 |-> src, src2 |-> src, imm |-> 0,
                     code |-> lower_unary_op(<<>>, op, prec, MachineRegister(dest),
                                             LowValue(src)),
                     ip |-> 1, entry |-> machine]
    /\ loPc' = "running"
    /\ UNCHANGED <<machine, simVars, allocVars, walkVars, patchVars, restVars>>

\* The immediates of Action::Constant: every P32 integer, read as signed
\* or as unsigned.
Immediates == (0 - Pow2(W32 - 1))..(Pow2(W32) - 1)

\* Lowerer::lower_action for Action::Constant
lower_constant(a, act) == const_(a, act.prec, MachineRegister(act.dest), act.value)

\* Action::Constant(prec, dest, value) is simulated, turned back into an
\* Action by Op::to_action, and lowered.
LowerConstant ==
    /\ loPc = "ready"
    /\ \E prec \in Precisions, dest \in LowRegisters, value \in Immediates :
        lowering' = [action |-> "Constant", op |-> "Constant", prec |-> prec,
                     dest |-> dest, src1 |-> <<"Register", dest>>,
                     src2 |-> <<"Register", dest>>, imm |-> value,
                     code |-> lower_constant(<<>>,
                                to_action_Constant(SimConstantValue(prec, value), dest)),
                     ip |-> 1, entry |-> machine]
    /\ loPc' = "running"
    /\ UNCHANGED <<machine, simVars, allocVars, walkVars, patchVars, restVars>>

\* Lowerer::lower_action for Action::Move
LowerMove ==
    /\ loPc = "ready"
    /\ \E dest \in MoveValues, src \in MoveValues :
        /\ dest # src
        /\ lowering' = [action |-> "Move", op |-> "Move", prec |-> "P64", dest |-> dest,
                        src1 |-> src, src2 |-> src, imm |-> 0,
                        code |-> lower_move(<<>>, LowValue(dest), LowValue(src)),
                        ip |-> 1, entry |-> machine]
    /\ loPc' = "running"
    /\ UNCHANGED <<machine, simVars, allocVars, walkVars, patchVars, restVars>>

\* The code between the prologue and the epilogue: nothing, or a Constant
\* that overwrites a callee-saved register or STATE_INDEX.
FunctionBodies ==
    {<<>>} \cup {const_(<<>>, "P64", r, v) :
                    r \in Range(CALLEE_SAVES) \cup {STATE_INDEX}, v \in {1, 9}}

\* Lowerer::lower_prologue, the code of the states, and Lowerer::lower_epilogue.
LowerFunction ==
    /\ loPc = "ready"
    /\ \E body \in FunctionBodies :
        lowering' = [action |-> "Function", op |-> "Function", prec |-> "P64",
                     dest |-> 0, src1 |-> <<"Register", 0>>, src2 |-> <<"Register", 0>>,
                     imm |-> 0, body |-> body,
                     code |-> lower_epilogue(lower_prologue(<<>>) \o body),
                     ip |-> 1, entry |-> machine]
    /\ loPc' = "running"
    /\ UNCHANGED <<machine, simVars, allocVars, walkVars, patchVars, restVars>>

\* The i32 immediates of a TestOp, at the scaled width.
I32 == (0 - Pow2(W32 - 1))..(Pow2(W32 - 1) - 1)

\* Lowerer::lower_test_op for a guard on a discriminant.
LowerTest ==
    /\ loPc = "ready"
    /\ \E op \in TestOps, prec \in Precisions, discriminant \in CodeValues,
          value \in I32 :
       \E mask \in IF op = "Bits" THEN I32 ELSE {0} :
        /\ lowering' = [action |-> "Test", op |-> op, prec |-> prec, dest |-> 0,
                        src1 |-> discriminant, src2 |-> discriminant,
                        imm |-> value, mask |-> mask,
                        code |-> lower_test_op(<<>>, op, prec, LowValue(discriminant),
                                               mask, value, "false_label"),
                        ip |-> 1, entry |-> machine]
        /\ loPc' = IF op = "Always" THEN "done" ELSE "running"
    /\ UNCHANGED <<machine, simVars, allocVars, walkVars, patchVars, restVars>>

\* The machine executes the next instruction of the code.
Execute ==
    /\ loPc = "running"
    /\ lowering.ip <= Len(lowering.code)
    /\ machine' = Exec(machine, lowering.code[lowering.ip])
    /\ lowering' = [lowering EXCEPT !.ip = @ + 1]
    /\ loPc' = IF lowering.ip = Len(lowering.code) \/ machine'.taken
               THEN "done" ELSE "running"
    /\ UNCHANGED <<simVars, allocVars, walkVars, patchVars, restVars>>

LowNext == LowerBinary \/ LowerUnary \/ LowerConstant \/ LowerTest \/ LowerMove \/ LowerFunction \/ Execute

SpecLower == LowInit /\ [][LowNext]_vars

(***************************************************************************)
(* Labels and branches (lowerer.rs:116-133, 295-302).  The code is the     *)
(* sequence of the instructions assembled; a branch holds the position     *)
(* where it ends and the displacement from there to its target.  A Patch   *)
(* is the index of a branch in the code.                                   *)
(***************************************************************************)
\* The number of instructions assembled, and of calls of Lowerer::patch.
MaxSites == 4
MaxPatches == 3

\* Option<usize>
None == <<>>
Some(x) == <<x>>
BranchKinds == {"jump_if", "const_jump", "const_call"}
\* The bytes of an instruction.
SizeOf(kind) == CASE kind = "jump_if" -> 6 [] kind \in {"const_jump", "const_call"} -> 5
                  [] OTHER -> 1

\* Assembler::get_pos
get_pos(code) == IF code = <<>> THEN 0 ELSE code[Len(code)].end

\* The displacement that is assembled for a target: an unknown target is
\* assembled as the least displacement.
Disp(target, end) ==
    IF target = None THEN 0 - Pow2(DispBits - 1) ELSE AsI32(target[1] - end)

\* Assembler::jump_if, const_jump, const_call: the code with the branch.
a_branch(code, kind, target) ==
    LET end == get_pos(code) + SizeOf(kind)
    IN  Append(code, [kind |-> kind, end |-> end, disp |-> Disp(target, end)])

\* Any other instruction.
a_other(code) ==
    Append(code, [kind |-> "other", end |-> get_pos(code) + SizeOf("other"), disp |-> 0])

\* Label::new
Label_new == [target |-> None, patches |-> <<>>]

\* Label::push
Label_push(label, patch) == [label EXCEPT !.patches = Append(@, patch)]

\* A branch that is assembled but not recorded on its label.
branch_Unrecorded(l, kind) ==
    [l EXCEPT !.code = a_branch(l.code, kind, l.label.target)]
\* Lowerer::jump_if, const_jump, const_call
branch(l, kind) ==
    [code |-> a_branch(l.code, kind, l.label.target),
     label |-> Label_push(l.label, Len(l.code) + 1)]

\* Assembler::patch checks that the branch has the old target.
a_patch_ok(code, patch, old) == code[patch].disp = Disp(old, code[patch].end)
\* Assembler::patch: the branch is rewritten with the new target.
a_patch(code, patch, new) ==
    [code EXCEPT ![patch].disp = Disp(new, code[patch].end)]

RECURSIVE Label_patch_code(_, _, _, _)
\* Label::patch: the callback is applied to every Patch of the label.
Label_patch_code(code, patches, i, new) ==
    IF i > Len(patches) THEN code
    ELSE Label_patch_code(a_patch(code, patches[i], new), patches, i + 1, new)

\* Lowerer::patch: the Lowerer afterwards, and the Label returned.
patch(l) ==
    LET here == get_pos(l.code)
    IN  [code |-> Label_patch_code(l.code, l.label.patches, 1, Some(here)),
         label |-> [l.label EXCEPT !.target = Some(here)]]
patch_returns(l) == [target |-> l.label.target, patches |-> <<>>]
patch_ok(l) ==
    \A i \in DOMAIN l.label.patches :
        a_patch_ok(l.code, l.label.patches[i], l.label.target)

PatchInit ==
    /\ pa = [l |-> [code |-> <<>>, label |-> Label_new],
             returned |-> Idle, before |-> <<>>, targets |-> <<>>]
    /\ paPc = "lowering"
    /\ SimIdle /\ AllocIdle /\ LowIdle /\ WalkIdle /\ RestIdle

PatchCanEmit == paPc = "lowering" /\ Len(pa.l.code) < MaxSites

\* Lowerer::jump_if toward the label.
PatchJumpIf ==
    /\ PatchCanEmit
    /\ pa' = [pa EXCEPT !.l = branch(pa.l, "jump_if")]
    /\ UNCHANGED <<paPc, simVars, allocVars, lowVars, walkVars, restVars>>

\* Lowerer::jump (const_jump) toward the label.
PatchJump ==
    /\ PatchCanEmit
    /\ pa' = [pa EXCEPT !.l = branch(pa.l, "const_jump")]
    /\ UNCHANGED <<paPc, simVars, allocVars, lowVars, walkVars, restVars>>

\* Lowerer::const_call toward the label.
PatchCall ==
    /\ PatchCanEmit
    /\ pa' = [pa EXCEPT !.l = branch(pa.l, "const_call")]
    /\ UNCHANGED <<paPc, simVars, allocVars, lowVars, walkVars, restVars>>

\* An instruction that is not a branch is assembled.
PatchOther ==
    /\ PatchCanEmit
    /\ pa' = [pa EXCEPT !.l.code = a_other(@)]
    /\ UNCHANGED <<paPc, simVars, allocVars, lowVars, walkVars, restVars>>

\* Lowerer::patch on the label.
PatchLabel ==
    /\ paPc = "lowering"
    /\ Len(pa.targets) < MaxPatches
    /\ IF patch_ok(pa.l)
       THEN /\ pa' = [l |-> patch(pa.l), returned |-> patch_returns(pa.l),
                      before |-> pa.l.code,
                      targets |-> Append(pa.targets, get_pos(pa.l.code))]
            /\ UNCHANGED paPc
       ELSE /\ paPc' = "panicked"
            /\ UNCHANGED pa
    /\ UNCHANGED <<simVars, allocVars, lowVars, walkVars, restVars>>

PatchNext == PatchJumpIf \/ PatchJump \/ PatchCall \/ PatchOther \/ PatchLabel

SpecPatch == PatchInit /\ [][PatchNext]_vars

(***************************************************************************)
(* beetle/mod.rs: the states of the Beetle machine and, for each state,    *)
(* the new_state of every Case that Machine::get_code returns, in order.   *)
(* Eager compilation starts from initial_states() and compiles a state     *)
(* that was named and is not compiled yet, in any order, until none is     *)
(* left.                                                                   *)
(***************************************************************************)
BeetleStates ==
    {"Root", "Dispatch", "Next", "Pick", "Roll", "Qdup", "Lshift", "Rshift",
     "Branch", "Branchi", "Qbranch", "Qbranchi", "Loop", "Loopi",
     "Ploopp", "Ploopm", "Ploop", "Ploopip", "Ploopim", "Ploopi", "Halt"}

\* The opcodes that State::Dispatch has a Case for: 0x00 to 0x5f.
NumOpcodes == 96

\* State::Dispatch without the Case of HALT.
DispatchTarget_NoHalt(opcode) ==
    CASE opcode = 0 -> "Next"
      [] opcode = 9 -> "Pick"
      [] opcode = 10 -> "Roll"
      [] opcode = 11 -> "Qdup"
      [] OTHER -> "Root"

\* State::Dispatch: the new_state of the Case of an opcode.
DispatchTarget(opcode) ==
    CASE opcode = 0 -> "Next"
      [] opcode = 9 -> "Pick"
      [] opcode = 10 -> "Roll"
      [] opcode = 11 -> "Qdup"
      [] opcode = 53 -> "Lshift"
      [] opcode = 54 -> "Rshift"
      [] opcode \in {76, 82} -> "Branch"
      [] opcode \in {77, 83} -> "Branchi"
      [] opcode = 78 -> "Qbranch"
      [] opcode = 79 -> "Qbranchi"
      [] opcode \in {80, 81, 84, 93, 94} -> "Next"
      [] opcode = 86 -> "Loop"
      [] opcode = 87 -> "Loopi"
      [] opcode = 88 -> "Ploop"
      [] opcode = 89 -> "Ploopi"
      [] opcode = 95 -> "Halt"
      [] OTHER -> "Root"

\* Machine::get_code: the new_state of each Case of `state`.
new_states(state) ==
    CASE state = "Root" -> <<"Dispatch">>
      [] state = "Next" -> <<"Root">>
      [] state = "Pick" -> [u \in 1..4 |-> "Root"]
      [] state = "Roll" -> [u \in 1..4 |-> "Root"]
      [] state = "Qdup" -> <<"Root", "Root">>
      [] state = "Lshift" -> <<"Root", "Root">>
      [] state = "Rshift" -> <<"Root", "Root">>
      [] state = "Branch" -> <<"Next">>
      [] state = "Branchi" -> <<"Next">>
      [] state = "Qbranch" -> <<"Branch", "Root">>
      [] state = "Qbranchi" -> <<"Branchi", "Next">>
      [] state = "Loop" -> <<"Root", "Branch">>
      [] state = "Loopi" -> <<"Next", "Branchi">>
      [] state = "Ploopp" -> <<"Root", "Branch">>
      [] state = "Ploopm" -> <<"Root", "Branch">>
      [] state = "Ploop" -> <<"Ploopp", "Ploopm">>
      [] state = "Ploopip" -> <<"Root", "Branchi">>
      [] state = "Ploopim" -> <<"Root", "Branchi">>
      [] state = "Ploopi" -> <<"Ploopip", "Ploopim">>
      [] state = "Halt" -> <<>>
      [] state = "Dispatch" -> [k \in 1..NumOpcodes |-> DispatchTarget(k - 1)]

\* Machine::initial_states
initial_states == <<"Root">>

CompileInit ==
    /\ cp = [seen |-> Range(initial_states), done |-> {}]
    /\ SimIdle /\ AllocIdle /\ LowIdle /\ WalkIdle /\ PatchIdle
    /\ MovesIdle /\ VMIdle

\* One state is compiled: every new_state of its Cases has been named.
CompileState ==
    /\ \E state \in cp.seen \ cp.done :
        cp' = [seen |-> cp.seen \cup Range(new_states(state)),
               done |-> cp.done \cup {state}]
    /\ UNCHANGED <<simVars, allocVars, lowVars, walkVars, patchVars, mv, vm>>

CompileNext == CompileState

SpecCompile == CompileInit /\ [][CompileNext]_vars

(***************************************************************************)
(* beetle/mod.rs: the Beetle virtual machine.  A cell is a 32-bit word,    *)
(* held as the signed integer with the same bits.  `s` is the state that   *)
(* the actions of a Case work on: s.v gives the contents of the registers  *)
(* and of the globals, s.mem the cells of the Beetle memory, and s.fault   *)
(* says whether an access left the memory (there is no bounds checking).   *)
(***************************************************************************)
MaxI32 == (Pow2(30) - 1) + Pow2(30)
MinI32 == (0 - Pow2(30)) - Pow2(30)

\* 32-bit addition: the sum modulo 2^32.
Add32(a, b) ==
    IF b > 0 /\ a > MaxI32 - b
    THEN ((a - Pow2(30)) - Pow2(30)) + ((b - Pow2(30)) - Pow2(30))
    ELSE IF b < 0 /\ a < MinI32 - b
    THEN ((a + Pow2(30)) + Pow2(30)) + ((b + Pow2(30)) + Pow2(30))
    ELSE a + b

Neg32(a) == IF a = MinI32 THEN MinI32 ELSE 0 - a

\* 32-bit multiplication by a constant that is not negative.
RECURSIVE Mul32(_, _)
Mul32(a, c) == IF c = 0 THEN 0 ELSE Add32(a, Mul32(a, c - 1))

\* code::BinaryOp at P32; a comparison gives all ones or zero.
BinaryOp32(op, a, b) ==
    CASE op = "Add" -> Add32(a, b)
      [] op = "Sub" -> Add32(a, Neg32(b))
      [] op = "Mul" -> Mul32(a, b)
      [] op = "Asr" -> a \div Pow2(b)
      [] op = "Eq" -> IF a = b THEN 0 - 1 ELSE 0

\* cell_bytes
cell_bytes(n) == 4 * n

BeetleRegisters == {"TEMP", "R1", "R2", "R3", "R4", "R5"}
Globals ==
    {"BEP", "BA", "BSP", "BRP", "BS0", "BR0", "BThrow", "BBad", "BNotAddress",
     "BMemory", "Opcode", "Stack0", "Stack1", "LoopFlag", "LoopStep", "LoopNew",
     "LoopOld"}

\* code::Action
a_move(s, dest, src) == Only({[t EXCEPT !.v[dest] = t.v[src]] : t \in {s}})
a_constant(s, dest, constant) == [s EXCEPT !.v[dest] = constant]
a_binary(s, op, dest, src1, src2) ==
    Only({[t EXCEPT !.v[dest] = BinaryOp32(op, t.v[src1], t.v[src2])] : t \in {s}})

\* A native address is in the Beetle memory when its offset from BMemory is
\* that of a cell.
InMemory(s, native) ==
    /\ native - s.v["BMemory"] \in 0..(cell_bytes(Len(s.mem)) - 1)
    /\ (native - s.v["BMemory"]) % 4 = 0
CellAt(s, native) == (native - s.v["BMemory"]) \div 4 + 1

a_load(s, dest, addr) ==
    Only({IF InMemory(t, t.v[addr])
          THEN [t EXCEPT !.v[dest] = t.mem[CellAt(t, t.v[addr])]]
          ELSE [t EXCEPT !.fault = TRUE] : t \in {s}})

\* The lowerer leaves the address in `dest`.
a_store(s, dest, src, addr) ==
    Only({IF InMemory(t, t.v[addr])
          THEN [t EXCEPT !.mem[CellAt(t, t.v[addr])] = t.v[src], !.v[dest] = t.v[addr]]
          ELSE [t EXCEPT !.fault = TRUE] : t \in {s}})

\* Builder: each method stands for the actions that it pushes.
b_move(s, dest, src) == a_move(s, dest, src)
b_const(s, dest, constant) == b_move(a_constant(s, "TEMP", constant), dest, "TEMP")
b_binary(s, op, dest, src1, src2) ==
    b_move(a_binary(s, op, "TEMP", src1, src2), dest, "TEMP")
b_const_binary(s, op, dest, src, constant) ==
    b_binary(a_constant(s, "TEMP", constant), op, dest, src, "TEMP")
\* Binary(Add, P64, dest, BMemory, addr): a Beetle address is not negative
\* as a 64-bit value.
native_address(s, dest, addr) ==
    Only({IF t.v[addr] >= 0
          THEN [t EXCEPT !.v[dest] = t.v["BMemory"] + t.v[addr]]
          ELSE [t EXCEPT !.v[dest] = t.v["BMemory"] - 1] : t \in {s}})
b_load(s, dest, addr) ==
    b_move(a_load(native_address(s, "TEMP", addr), "TEMP", "TEMP"), dest, "TEMP")
b_store(s, src, addr) ==
    a_store(native_address(s, "TEMP", addr), "TEMP", src, "TEMP")
\* A pop that does not increment `addr`.
b_pop_NoIncrement(s, dest, addr) == b_load(s, dest, addr)
b_pop(s, dest, addr) ==
    b_move(b_const_binary(b_load(s, dest, addr), "Add", "TEMP", addr, cell_bytes(1)),
           addr, "TEMP")
\* A push that stores at the address before it is decremented.
b_push_NoDecrement(s, src, addr) ==
    b_store(b_move(b_const_binary(s, "Sub", "TEMP", addr, cell_bytes(1)), "TEMP", addr),
            src, "TEMP")
b_push(s, src, addr) ==
    b_store(b_move(b_const_binary(s, "Sub", "TEMP", addr, cell_bytes(1)), addr, "TEMP"),
            src, "TEMP")

\* Machine::get_code, State::Dispatch: the actions of the Case of an opcode.
\* Only the opcodes of the object code that is run are given; any other
\* leaves the state as a fault.
DispatchActions(opcode, s) ==
    CASE opcode = 0 -> s                                              \* NEXT
      [] opcode = 1 -> b_push(b_load(s, "R2", "BSP"), "R2", "BSP")    \* DUP
      [] opcode = 2 -> b_const_binary(s, "Add", "BSP", "BSP", cell_bytes(1))  \* DROP
      [] opcode = 4 ->                                                \* OVER
            b_push(b_load(b_const_binary(s, "Add", "R2", "BSP", cell_bytes(1)),
                          "R3", "R2"), "R3", "BSP")
      [] opcode = 6 ->                                                \* -ROT
            b_store(b_store(b_load(b_const_binary(
                b_store(b_load(b_const_binary(b_load(s, "R2", "BSP"),
                                              "Add", "R5", "BSP", cell_bytes(2)),
                               "R3", "R5"), "R2", "R5"),
                "Add", "R5", "BSP", cell_bytes(1)), "R2", "R5"), "R3", "R5"), "R2", "BSP")
      [] opcode = 8 -> b_store(b_pop(s, "R2", "BSP"), "R2", "BSP")    \* NIP
      [] opcode = 21 ->                                               \* 0=
            b_store(b_const_binary(b_load(s, "R2", "BSP"), "Eq", "R2", "R2", 0), "R2", "BSP")
      [] opcode = 26 -> b_push(b_const(s, "R4", 1), "R4", "BSP")      \* 1
      [] opcode = 33 ->                                               \* 1+
            b_store(b_const_binary(b_load(s, "R2", "BSP"), "Add", "R2", "R2", 1), "R2", "BSP")
      [] opcode = 34 ->                                               \* 1-
            b_store(b_const_binary(b_load(s, "R2", "BSP"), "Sub", "R2", "R2", 1), "R2", "BSP")
      [] opcode = 77 -> s                                             \* BRANCHI
      [] opcode = 79 -> b_pop(s, "Stack0", "BSP")                     \* ?BRANCHI
      [] opcode = 83 -> b_push(s, "BEP", "BRP")                       \* CALLI
      [] opcode = 84 -> b_pop(s, "BEP", "BRP")                        \* EXIT
      [] opcode = 95 -> s                                             \* HALT
      [] OTHER -> [s EXCEPT !.fault = TRUE]

\* Machine::get_code: the condition of the k-th Case of `state`, on `s`.
CaseCondition(state, k, s) ==
    CASE state \in {"Root", "Next", "Branch", "Branchi"} -> TRUE
      [] state = "Qbranchi" -> IF k = 1 THEN s.v["Stack0"] = 0 ELSE s.v["Stack0"] # 0
      [] state = "Dispatch" -> s.v["Opcode"] % 256 = k - 1
      [] OTHER -> FALSE

\* Machine::get_code: the actions of the k-th Case of `state`, on `s`.
CaseActions(state, k, s) ==
    CASE state = "Root" -> b_const_binary(b_move(s, "Opcode", "BA"), "Asr", "BA", "BA", 8)
      [] state = "Next" -> b_pop(s, "BA", "BEP")
      [] state = "Branch" -> b_load(s, "BEP", "BEP")
      [] state = "Branchi" ->
            b_binary(b_const_binary(s, "Mul", "R2", "BA", cell_bytes(1)),
                     "Add", "BEP", "BEP", "R2")
      [] state = "Qbranchi" -> s
      [] state = "Dispatch" -> DispatchActions(k - 1, s)
      [] OTHER -> [s EXCEPT !.fault = TRUE]

\* "Mijit selects the first transition with a true condition" (0: none).
SelectedCase(state, s) ==
    LET S == {k \in 1..Len(new_states(state)) : CaseCondition(state, k, s)}
    IN  IF S = {} THEN 0 ELSE CHOOSE k \in S : \A j \in S : k <= j

\* tests::ackermann_object
ackermann_object == <<5380, 591, 8456, 2125, 5377, 847, 1712642, -1965, 845, 570827268, -2733, -2989, 84>>

RECURSIVE Ackermann(_, _)
Ackermann(m, n) ==
    IF m = 0 THEN n + 1
    ELSE IF n = 0 THEN Ackermann(m - 1, 1)
    ELSE Ackermann(m - 1, Ackermann(m, n - 1))

(***************************************************************************)
(* beetle/mod.rs tests: the VM that the host builds, and tests::ackermann  *)
(* run on it with m and n up to MaxM and MaxN.  `vm.owner` says who holds  *)
(* the Jit (and with it the pool of slots): run() gives it to execute(),   *)
(* which gives it back with the final state.  `vm.state` is the state of   *)
(* the Beetle machine while execute() runs, "None" otherwise, and          *)
(* `vm.host` is what the host does next.                                   *)
(***************************************************************************)
MaxM == 2
MaxN == 1

\* The sizes of the memory and of the two stacks, in cells, for the deepest
\* recursion of the runs that are tried.
DATA_CELLS == Ackermann(MaxM, MaxN) + MaxM + 2
RETURN_CELLS == Ackermann(MaxM, MaxN) + MaxM + 2
MEMORY_CELLS == Len(ackermann_object) + 1 + RETURN_CELLS + DATA_CELLS

\* What the registers hold when execute() is entered is not defined.
RegisterJunk == {0, 0 - 1}

\* VM::get, VM::set: *self.jit.slot(global)
VM_get(s, global) == s.v[global]
VM_set(s, global, value) == [s EXCEPT !.v[global] = value]
\* VM::load, VM::store
VM_load(s, addr) == s.mem[addr \div 4 + 1]
VM_store(s, addr, value) == [s EXCEPT !.mem[addr \div 4 + 1] = value]
\* VM::push, VM::rpush
VM_push_to(s, pointer, item) ==
    VM_store(VM_set(s, pointer, VM_get(s, pointer) - cell_bytes(1)),
             VM_get(s, pointer) - cell_bytes(1), item)
VM_push(s, item) == VM_push_to(s, "BSP", item)
VM_rpush(s, item) == VM_push_to(s, "BRP", item)
\* VM::pop: the item, and the VM after it.
VM_pop_item(s) == VM_load(s, VM_get(s, "BSP"))
VM_pop(s) == VM_set(s, "BSP", VM_get(s, "BSP") + cell_bytes(1))

\* VM::allocate: the Beetle pointer to `cells` cells below `free_cells`.
VM_allocate(free_cells, cells) == cell_bytes(free_cells - cells)

\* VM::new followed by VM::load_object: every slot is zero but those that
\* are set; the memory holds the object code and the HALT instruction.
VM_halt_addr(memory_cells, data_cells, return_cells) ==
    VM_allocate(memory_cells - data_cells - return_cells, 1)

VM_new(memory_cells, data_cells, return_cells, object, junk) ==
    LET sp == VM_allocate(memory_cells, data_cells) + cell_bytes(data_cells)
        rp == VM_allocate(memory_cells - data_cells, return_cells)
                + cell_bytes(return_cells)
        halt_addr == VM_halt_addr(memory_cells, data_cells, return_cells)
    IN  [v |-> [x \in BeetleRegisters \cup Globals |->
                    CASE x \in {"BS0", "BSP"} -> sp
                      [] x \in {"BR0", "BRP"} -> rp
                      [] x \in BeetleRegisters -> junk
                      [] OTHER -> 0],
         mem |-> [i \in 1..memory_cells |->
                    IF i <= Len(object) THEN object[i]
                    ELSE IF i = halt_addr \div 4 + 1 THEN 95 ELSE 0],
         fault |-> FALSE]

BeetleInit ==
    /\ \E m \in 0..MaxM, n \in 0..MaxN, junk \in RegisterJunk :
        vm = [owner |-> "host", host |-> "push_m", state |-> "None", final |-> "None",
              s |-> VM_new(MEMORY_CELLS, DATA_CELLS, RETURN_CELLS, ackermann_object, junk),
              m |-> m, n |-> n, result |-> 0]
    /\ SimIdle /\ AllocIdle /\ LowIdle /\ WalkIdle /\ PatchIdle
    /\ CompileIdle /\ MovesIdle

\* vm.push(m); vm.push(n)
HostPush ==
    /\ vm.owner = "host"
    /\ vm.host \in {"push_m", "push_n"}
    /\ vm' = [vm EXCEPT !.s = VM_push(@, IF vm.host = "push_m" THEN vm.m ELSE vm.n),
                        !.host = IF vm.host = "push_m" THEN "push_n" ELSE "rpush"]
    /\ UNCHANGED <<simVars, allocVars, lowVars, walkVars, patchVars, cp, mv>>

\* vm.rpush(vm.halt_addr)
HostRpush ==
    /\ vm.owner = "host"
    /\ vm.host = "rpush"
    /\ vm' = [vm EXCEPT
                !.s = VM_rpush(@, VM_halt_addr(MEMORY_CELLS, DATA_CELLS, RETURN_CELLS)),
                !.host = "run"]
    /\ UNCHANGED <<simVars, allocVars, lowVars, walkVars, patchVars, cp, mv>>

\* VM::run that lends the Jit to execute() and keeps the VM.
run_Shared(v, ep) ==
    [v EXCEPT !.s = VM_set(@, "BEP", ep), !.state = "Root", !.host = "pop"]

\* VM::run up to the call of execute(State::Root), which takes the Jit.
run(v, ep) ==
    [v EXCEPT !.s = VM_set(@, "BEP", ep), !.owner = "code", !.state = "Root",
              !.host = "pop"]

\* vm = vm.run(0)
HostRun ==
    /\ vm.owner = "host"
    /\ vm.host = "run"
    /\ vm' = run(vm, 0)
    /\ UNCHANGED <<simVars, allocVars, lowVars, walkVars, patchVars, cp, mv>>

\* execute(): the transition of the first Case whose condition is true.
\* What the code does when no condition is true, or after an access outside
\* the memory, is not defined.
CodeStep ==
    /\ vm.state # "None"
    /\ ~vm.s.fault
    /\ new_states(vm.state) # <<>>
    /\ LET k == SelectedCase(vm.state, vm.s)
       IN  IF k = 0
           THEN vm' = [vm EXCEPT !.s.fault = TRUE]
           ELSE vm' = [vm EXCEPT !.s = CaseActions(vm.state, k, @),
                                 !.state = new_states(vm.state)[k]]
    /\ UNCHANGED <<simVars, allocVars, lowVars, walkVars, patchVars, cp, mv>>

\* execute() returns (jit, state) from a state without a Case; run() puts
\* the Jit back.
ExecuteReturn ==
    /\ vm.state # "None"
    /\ vm.owner = "code"
    /\ new_states(vm.state) = <<>>
    /\ vm' = [vm EXCEPT !.owner = "host", !.final = vm.state, !.state = "None"]
    /\ UNCHANGED <<simVars, allocVars, lowVars, walkVars, patchVars, cp, mv>>

\* let result = vm.pop()
HostPop ==
    /\ vm.owner = "host"
    /\ vm.host = "pop"
    /\ vm' = [vm EXCEPT !.result = VM_pop_item(vm.s), !.s = VM_pop(@), !.host = "done"]
    /\ UNCHANGED <<simVars, allocVars, lowVars, walkVars, patchVars, cp, mv>>

BeetleNext ==
    \/ HostPush
    \/ HostRpush
    \/ HostRun
    \/ CodeStep
    \/ ExecuteReturn
    \/ HostPop

\* The generated code runs to completion on the calling thread.
SpecBeetle == BeetleInit /\ [][BeetleNext]_vars /\ WF_vars(BeetleNext)

(***************************************************************************)
(* optimizer/codegen.rs, CodeGen::finish, lines 247-267: the Moves that    *)
(* put every live value where the exit Convention wants it.  `d2s` is      *)
(* dest_to_src; a location is a Register (by its index in                  *)
(* ALLOCATABLE_REGISTERS) or a Slot.                                       *)
(***************************************************************************)
Reg(r) == <<"Register", r>>
Slt(k) == <<"Slot", k>>

\* finish, lines 259-266: the first allocatable register that is not a
\* destination, or else the slot after those in use.
temp_reg(d2s, num_slots) ==
    IF \E r \in all_registers : Reg(r) \notin DOMAIN d2s
    THEN Reg(CHOOSE r \in all_registers :
                /\ Reg(r) \notin DOMAIN d2s
                /\ \A q \in all_registers : Reg(q) \notin DOMAIN d2s => r <= q)
    ELSE Slt(num_slots)

\* An order on the locations: the registers, then the slots.
Before(x, y) ==
    \/ x[1] = "Register" /\ y[1] = "Slot"
    \/ x[1] = y[1] /\ x[2] <= y[2]
First(S) == CHOOSE x \in S : \A y \in S : Before(x, y)

\* optimizer/moves.rs: the swap-chain algorithm.  A move whose destination
\* no pending move reads is emitted; when every pending destination is read
\* (only cycles are left) a destination is saved in `temp`, and the moves
\* that read it read `temp` instead.
RECURSIVE moves(_, _)
moves(d2s, temp) ==
    LET pending == {d \in DOMAIN d2s : d2s[d] # d}
        ready == {d \in pending : \A e \in pending : d2s[e] # d}
    IN  IF pending = {} THEN <<>>
        ELSE IF ready # {}
        THEN <<<<First(ready), d2s[First(ready)]>>>>
             \o moves([d \in pending \ {First(ready)} |-> d2s[d]], temp)
        ELSE <<<<temp, First(pending)>>>>
             \o moves([d \in pending |->
                        IF d2s[d] = First(pending) THEN temp ELSE d2s[d]], temp)

\* The mappings that are tried: each of the first MaxMoveRegs registers is a
\* destination or not, at most one slot is a destination, the sources are
\* those registers and, when a slot is in use, Slot 0; with `rest`, every
\* other allocatable register holds a live value that stays where it is.
MaxMoveRegs == 3

MoveRegs == {Reg(r) : r \in 0..(MaxMoveRegs - 1)}
MoveDestSlots == {Slt(0), Slt(1)}
MoveSources(num_slots) == MoveRegs \cup (IF num_slots > 0 THEN {Slt(0)} ELSE {})

RestInPlace == [x \in {Reg(r) : r \in MaxMoveRegs..(NUM_REGISTERS - 1)} |-> x]

MoveMaps(num_slots) ==
    UNION {[D \cup S -> MoveSources(num_slots)] :
            D \in SUBSET MoveRegs, S \in {{}} \cup {{x} : x \in MoveDestSlots}}

\* The value that a location holds before the Moves is named by the location.
MovesInit ==
    /\ \E num_slots \in 0..2, rest \in BOOLEAN :
        \E m \in MoveMaps(num_slots) :
            mv = [d2s |-> IF rest THEN m @@ RestInPlace ELSE m,
                  num_slots |-> num_slots,
                  temp |-> Idle,
                  actions |-> <<>>,
                  holds |-> <<>>,
                  pc |-> "finish"]
    /\ SimIdle /\ AllocIdle /\ LowIdle /\ WalkIdle /\ PatchIdle
    /\ CompileIdle /\ VMIdle

\* finish, lines 259-267
MovesFinish ==
    /\ mv.pc = "finish"
    /\ \E temp \in {temp_reg(mv.d2s, mv.num_slots)} :
        /\ mv' = [mv EXCEPT
                    !.temp = temp,
                    !.actions = moves(mv.d2s, temp),
                    !.holds = [x \in DOMAIN mv.d2s
                                    \cup {mv.d2s[d] : d \in DOMAIN mv.d2s}
                                    \cup {temp} |-> x],
                    !.pc = "run"]
    /\ UNCHANGED <<simVars, allocVars, lowVars, walkVars, patchVars, cp, vm>>

\* Action::Move(dest, src) is executed.
MovesStep ==
    /\ mv.pc = "run"
    /\ mv.actions # <<>>
    /\ mv' = [mv EXCEPT !.holds[Head(mv.actions)[1]] = mv.holds[Head(mv.actions)[2]],
                        !.actions = Tail(@)]
    /\ UNCHANGED <<simVars, allocVars, lowVars, walkVars, patchVars, cp, vm>>

MovesDone ==
    /\ mv.pc = "run"
    /\ mv.actions = <<>>
    /\ mv' = [mv EXCEPT !.pc = "done"]
    /\ UNCHANGED <<simVars, allocVars, lowVars, walkVars, patchVars, cp, vm>>

MovesNext == MovesFinish \/ MovesStep \/ MovesDone

SpecMoves == MovesInit /\ [][MovesNext]_vars

\* C10: after the code of a Binary Add, Sub, Mul, And, Or or Xor, dest holds
\* the operation applied to what src1 and src2 held before it, wherever the
\* operands are; the code of a Sub whose src2 is dest starts by moving dest to
\* TEMP.
C10_BinaryLowering ==
    (loPc = "done" /\ lowering.action = "Binary"
                   /\ lowering.op \in PlainBinaryOps) =>
        /\ machine.regs[MachineRegister(lowering.dest)] =
                ALU(lowering.op, lowering.prec,
                    ValueIn(lowering.entry, lowering.src1),
                    ValueIn(lowering.entry, lowering.src2))
        /\ (lowering.op = "Sub" /\ lowering.src2 = <<"Register", lowering.dest>>) =>
                lowering.code[1] =
                    <<"move", "P64", TEMP, MachineRegister(lowering.dest)>>

\* A Sub whose src2 is dest and whose src1 is in a slot, with operands for
\* which the order matters.
C10_Witness ==
    /\ loPc = "done"
    /\ lowering.action = "Binary"
    /\ lowering.op = "Sub"
    /\ lowering.src2 = <<"Register", lowering.dest>>
    /\ lowering.src1[1] = "Slot"
    /\ ALU("Sub", lowering.prec, ValueIn(lowering.entry, lowering.src1),
                                 ValueIn(lowering.entry, lowering.src2))
       # ALU("Sub", lowering.prec, ValueIn(lowering.entry, lowering.src2),
                                   ValueIn(lowering.entry, lowering.src1))

(***************************************************************************)
(* optimizer/builder/mod.rs: Builder::walk() on the hot path of a tree.    *)
(* `wk` holds its locals: the `slots_used` it was called with, `marks`,    *)
(* `variables`, the CodeGen `cg`, the number `i` of instructions that the  *)
(* backward loop has not visited yet, and `cold`, the arguments of every   *)
(* nested walk() made so far.                                              *)
(***************************************************************************)
\* build(): the coldness of the hot path of the root.
Coldness == 2

\* The slots in use on entry are those of the live-in values, and up to
\* EnteringSlack slots more.
EnteringSlack == 2
SlotInputs(g) == {n \in InputNodes : g.variables[n][1] = "Slot"}
EnteringSlots(g) == {Cardinality(SlotInputs(g)), Cardinality(SlotInputs(g)) + EnteringSlack}

NoVariable == <<"None">>

\* builder/flood.rs: flood() marks every node of the hot path with
\* `coldness`; Builder::new marked the entry node with 1.
Flood(g, coldness) ==
    [n \in {0} \cup {NodeId(k) : k \in 1..Len(g.nodes)} |-> IF n = 0 THEN 1 ELSE coldness]

\* marks[dataflow.out(out).0]: a live-in value is an output of the entry node.
MarkOf(marks, out) == IF out \in InputNodes THEN marks[0] ELSE marks[out]

\* walk(), lines 97-101: the Variable of every input.
InputVariables(g) ==
    [n \in AllocNodes(g) |-> IF n \in InputNodes THEN g.variables[n] ELSE NoVariable]

\* walk(), lines 119-124, when both values get the same slot.
walk_assign_spill_OneSlot(st, out1, out2) ==
    [variables |-> [st.variables EXCEPT ![out1] = <<"Slot", st.slots_used>>,
                                        ![out2] = <<"Slot", st.slots_used>>],
     slots_used |-> st.slots_used + 1]

\* walk(), lines 119-124
walk_assign_spill(st, out1, out2) ==
    [variables |-> [st.variables EXCEPT ![out1] = <<"Slot", st.slots_used>>,
                                        ![out2] = <<"Slot", st.slots_used + 1>>],
     slots_used |-> st.slots_used + 2]

\* walk(), lines 125-130
walk_assign_node(g, allocation, st, node) ==
    IF DfNode(g, node).out
    THEN [st EXCEPT !.variables[node] = <<"Register", allocation[node]>>]
    ELSE st

\* walk(), lines 117-132
RECURSIVE walk_assign(_, _, _, _, _)
walk_assign(g, allocation, instructions, k, st) ==
    IF k > Len(instructions) THEN st
    ELSE Only({walk_assign(g, allocation, instructions, k + 1, t) : t \in
            {IF instructions[k][1] = "Spill"
             THEN walk_assign_spill(st, instructions[k][2], instructions[k][3])
             ELSE walk_assign_node(g, allocation, st, instructions[k][2])}})

\* CodeGen::new
CodeGenNew(allocation, st) ==
    [allocation |-> allocation, slots_used |-> st.slots_used,
     variables |-> st.variables, nodes |-> <<>>]

\* CodeGen::read: where the value is at the point the CodeGen has reached.
cg_read(cg, out) == cg.variables[out]

\* CodeGen::add_spill: before the Spill the two values are in their
\* registers, and their slots are not in use.
cg_add_spill(cg, out1, out2) ==
    [cg EXCEPT !.slots_used = @ - 2,
               !.variables[out1] = <<"Register", cg.allocation[out1]>>,
               !.variables[out2] = <<"Register", cg.allocation[out2]>>]

\* CodeGen::add_node
cg_add_node(cg, node) == [cg EXCEPT !.nodes = Append(@, node)]

\* builder/flood.rs: the inputs that the flood() of a nested walk() finds
\* when it needs `out`: a marked value is an input, and an unmarked one is
\* computed again on the cold path from the operands of its node.
RECURSIVE ColdInputs(_, _, _)
ColdInputs(g, marks, out) ==
    IF MarkOf(marks, out) # 0 THEN {out}
    ELSE UNION {ColdInputs(g, marks, DfNode(g, out).ins[j]) :
                    j \in 1..Len(DfNode(g, out).ins)}

\* builder/flood.rs: the nodes that the flood() of a nested walk() marks when
\* it needs `out`: the unmarked nodes that the value is computed from.
RECURSIVE ColdNodes(_, _, _)
ColdNodes(g, marks, out) ==
    IF MarkOf(marks, out) # 0 THEN {}
    ELSE {out} \cup UNION {ColdNodes(g, marks, DfNode(g, out).ins[j]) :
                            j \in 1..Len(DfNode(g, out).ins)}

\* builder/flood.rs: flood() marks the nodes it visits with `coldness`.
flood_marks(marks, nodes, coldness) ==
    [n \in DOMAIN marks |-> IF n \in nodes THEN coldness ELSE marks[n]]

\* A walk() that leaves the marks of its nodes as they are.
walk_unmark_Kept(marks, nodes) == marks

\* walk(), line 188, for each Node instruction: `self.marks[node] = 0`.
walk_unmark(marks, nodes) ==
    [n \in DOMAIN marks |-> IF n \in nodes THEN 0 ELSE marks[n]]

\* walk(), lines 159-170: the marks when the nested walk() of a guard
\* returns. Its flood() marks the nodes of the cold path with coldness + 1,
\* and its backward loop visits one instruction for each of them.
nested_walk_marks(g, w, nd) ==
    LET nodes == UNION {ColdNodes(g, w.marks, nd.ka[j]) : j \in 1..Len(nd.ka)}
    IN  walk_unmark(flood_marks(w.marks, nodes, w.coldness + 1), nodes)

\* walk(), lines 159-170: the arguments of the nested walk() of a guard, and
\* what `input` answers for each input of the cold path.
ColdWalk(g, w, node, nd) ==
    [guard |-> node,
     pos |-> w.i,
     coldness |-> w.coldness + 1,
     slots_used |-> w.cg.slots_used,
     inputs |-> {<<out, cg_read(w.cg, out)>> :
                    out \in UNION {ColdInputs(g, w.marks, nd.ka[j]) : j \in 1..Len(nd.ka)}}]

\* walk(), lines 173-181
Discriminant(w, nd) == cg_read(w.cg, nd.ins[1])

(* The hot paths that are walked: of MaxWalkNodes Constant, Binary and     *)
(* Guard nodes, each Binary and each Guard on live-in values, each Guard   *)
(* with keep-alives.                                                       *)

WalkMenu(nodes) ==
    {nd \in NodeMenu(nodes) :
        \/ nd.op = "Constant"
        \/ nd.op = "Binary" /\ nd.ins = <<1, 2>>
        \/ nd.op = "Guard" /\ nd.ins = <<1>>
                           /\ nd.ka \notin {<<>>, Descending(2, NumInputs)}}

RECURSIVE WalkNodeSeqs(_)
WalkNodeSeqs(n) ==
    IF n = 0 THEN {<<>>}
    ELSE UNION {{Append(nodes, nd) : nd \in WalkMenu(nodes)} : nodes \in WalkNodeSeqs(n - 1)}

WalkLiveOnExit == {<<1, FALSE>>, <<1, TRUE>>, <<3, TRUE>>}

WalkDataflows == DataflowsOf(WalkNodeSeqs(MaxWalkNodes), WalkLiveOnExit)

\* walk(), lines 83-103: the call made by build().
WalkInit ==
    /\ AllocStart(WalkDataflows)
    /\ \E slots_used \in EnteringSlots(df) :
        wk = [coldness |-> Coldness,
              slots_used |-> slots_used,
              marks |-> Flood(df, Coldness),
              variables |-> InputVariables(df),
              cg |-> Idle, i |-> 0, cold |-> <<>>, discriminants |-> <<>>]
    /\ wkPc = "allocate"
    /\ SimIdle /\ LowIdle /\ PatchIdle /\ RestIdle

\* walk(), lines 114-142, once allocate() has returned.
WalkAssign ==
    /\ wkPc = "allocate"
    /\ alPc = "finished"
    /\ \E st \in {walk_assign(df, al.allocation, PlacerIter(al.placed), 1,
                    [variables |-> wk.variables, slots_used |-> wk.slots_used])} :
        wk' = [wk EXCEPT !.variables = st.variables,
                         !.cg = CodeGenNew(al.allocation, st),
                         !.i = Len(al.placed)]
    /\ wkPc' = IF al.placed = <<>> THEN "done" ELSE "back"
    /\ UNCHANGED <<simVars, allocVars, lowVars, patchVars, restVars>>

\* The instruction that the backward loop visits next.
WalkInstruction == PlacerIter(al.placed)[wk.i]
WalkPcNext == IF wk.i = 1 THEN "done" ELSE "back"

\* walk(), lines 150-152
WalkBackSpill ==
    /\ wkPc = "back"
    /\ WalkInstruction[1] = "Spill"
    /\ wk' = [wk EXCEPT !.cg = cg_add_spill(@, WalkInstruction[2], WalkInstruction[3]),
                        !.i = @ - 1]
    /\ wkPc' = WalkPcNext
    /\ UNCHANGED <<simVars, allocVars, lowVars, patchVars, restVars>>

\* walk(), lines 154-181 and 188: a guard.
WalkBackGuard ==
    /\ wkPc = "back"
    /\ WalkInstruction[1] = "Node"
    /\ DfNode(df, WalkInstruction[2]).op = "Guard"
    /\ wk' = [wk EXCEPT
                !.cold = Append(@, ColdWalk(df, wk, WalkInstruction[2],
                                            DfNode(df, WalkInstruction[2]))),
                !.discriminants = Append(@, Discriminant(wk, DfNode(df, WalkInstruction[2]))),
                !.marks = walk_unmark(nested_walk_marks(df, wk, DfNode(df, WalkInstruction[2])),
                                      {WalkInstruction[2]}),
                !.i = @ - 1]
    /\ wkPc' = WalkPcNext
    /\ UNCHANGED <<simVars, allocVars, lowVars, patchVars, restVars>>

\* walk(), lines 182-188: any other node.
WalkBackNode ==
    /\ wkPc = "back"
    /\ WalkInstruction[1] = "Node"
    /\ DfNode(df, WalkInstruction[2]).op # "Guard"
    /\ wk' = [wk EXCEPT
                !.cg = IF DfNode(df, WalkInstruction[2]).res # 0
                       THEN cg_add_node(@, WalkInstruction[2]) ELSE @,
                !.marks = walk_unmark(@, {WalkInstruction[2]}),
                !.i = @ - 1]
    /\ wkPc' = WalkPcNext
    /\ UNCHANGED <<simVars, allocVars, lowVars, patchVars, restVars>>

WalkNext ==
    \/ AllocAddNode
    \/ AllocAddNodePanic
    \/ AllocFinish
    \/ AllocFinishPanic
    \/ WalkAssign
    \/ WalkBackSpill
    \/ WalkBackGuard
    \/ WalkBackNode

SpecWalk == WalkInit /\ [][WalkNext]_vars

(***************************************************************************)
(* The spill stress: hot paths of up to StressConstants Constant nodes     *)
(* that are all live on exit, and no live-in value that is used.           *)
(***************************************************************************)
StressNodes(k) == [i \in 1..k |-> DfRec("Constant", <<>>, <<>>, TRUE, <<>>, 0, 1, <<>>)]

StressDataflows ==
    DataflowsOf({StressNodes(k) : k \in 1..StressConstants}, {<<NumInputs + 1, TRUE>>})

StressInit ==
    /\ AllocStart(StressDataflows)
    /\ wk = [coldness |-> Coldness,
             slots_used |-> Cardinality(SlotInputs(df)),
             marks |-> Flood(df, Coldness),
             variables |-> InputVariables(df),
             cg |-> Idle, i |-> 0, cold |-> <<>>, discriminants |-> <<>>]
    /\ wkPc = "allocate"
    /\ SimIdle /\ LowIdle /\ PatchIdle /\ RestIdle

StressNext ==
    \/ AllocAddNode
    \/ AllocFinish
    \/ AllocFinishPanic
    \/ WalkAssign
    \/ WalkBackSpill
    \/ WalkBackNode

SpecStress == StressInit /\ [][StressNext]_vars

(***************************************************************************)
(* The guard orders of builder/mod.rs tests: hot paths of MaxGuardNodes    *)
(* nodes, each either the next Binary of a chain x_1 = x_0 * x_0, x_2 =    *)
(* x_1 * x_1, ... that starts at the live-in value 1, or a Guard that      *)
(* tests the live-in value or any value of the chain computed so far.      *)
(* Every Guard depends on the entry node only, and the i-th keeps the      *)
(* live-in value 1 + i alive; x_1 is live on exit.                         *)
(***************************************************************************)
MaxGuardNodes == 5

ChainValue(nodes) == IF LatestValue(nodes) = 0 THEN 1 ELSE LatestValue(nodes)
GuardsOf(nodes) == {k \in 1..Len(nodes) : nodes[k].op = "Guard"}

GuardMenu(nodes) ==
    {DfRec("Binary", <<ChainValue(nodes), ChainValue(nodes)>>, <<>>, TRUE, <<0, 0>>, 3, 2, <<>>)}
    \cup {DfRec("Guard", <<x>>, <<0>>, FALSE, <<1>>, 0, 1,
                <<2 + Cardinality(GuardsOf(nodes))>>) :
            x \in {1} \cup {NodeId(k) : k \in {j \in 1..Len(nodes) : nodes[j].out}}}

RECURSIVE GuardNodeSeqs(_)
GuardNodeSeqs(n) ==
    IF n = 0 THEN {<<>>}
    ELSE UNION {{Append(nodes, nd) : nd \in GuardMenu(nodes)} : nodes \in GuardNodeSeqs(n - 1)}

\* The first value of the chain (the live-in value when there is none).
FirstValue(nodes) ==
    LET S == {k \in 1..Len(nodes) : nodes[k].out}
    IN  IF S = {} THEN 1 ELSE NodeId(CHOOSE k \in S : \A j \in S : k <= j)

\* flood() visits the nodes that the exit needs: the last value of the chain
\* is live on exit or tested by a Guard.
Needed(nodes) ==
    \/ LatestValue(nodes) \in {0, FirstValue(nodes)}
    \/ \E k \in GuardsOf(nodes) : nodes[k].ins = <<LatestValue(nodes)>>

GuardDataflows ==
    {[nodes |-> nodes,
      variables |-> [n \in InputNodes |-> InputVariable(n)],
      outputs |-> <<FirstValue(nodes)>>] :
        nodes \in {ns \in GuardNodeSeqs(MaxGuardNodes) : Needed(ns)}}

GuardsInit ==
    /\ AllocStart(GuardDataflows)
    /\ wk = [coldness |-> Coldness,
             slots_used |-> Cardinality(SlotInputs(df)),
             marks |-> Flood(df, Coldness),
             variables |-> InputVariables(df),
             cg |-> Idle, i |-> 0, cold |-> <<>>, discriminants |-> <<>>]
    /\ wkPc = "allocate"
    /\ SimIdle /\ LowIdle /\ PatchIdle /\ RestIdle

GuardsNext ==
    \/ AllocAddNode
    \/ AllocFinish
    \/ WalkAssign
    \/ WalkBackGuard
    \/ WalkBackNode

SpecGuards == GuardsInit /\ [][GuardsNext]_vars

(***************************************************************************)
(* Properties of walk().  The contents of the registers and of the slots   *)
(* at a position of the emitted order follow from the instructions before  *)
(* it: a node writes the register allocated to its output, and the k-th    *)
(* Spill pushes its two values on the slots in use.                        *)
(***************************************************************************)
SpillsBefore(p) == Cardinality({q \in 1..(p - 1) : Instructions[q][1] = "Spill"})

\* The slot that the Spill at position q pushes its first value to.
PushedTo(q) == wk.slots_used + 2 * SpillsBefore(q)

\* The value in register r before the instruction at position p + 1.
RegAt(p, r) ==
    LET W == {q \in 1..p :
                /\ Instructions[q][1] = "Node"
                /\ DfNode(df, Instructions[q][2]).out
                /\ al.allocation[Instructions[q][2]] = r}
        I == {n \in InputNodes : df.variables[n] = <<"Register", r>>}
    IN  IF W # {} THEN Instructions[SetMax(W)][2]
        ELSE IF I # {} THEN SetMax(I) ELSE Absent

\* The values written to slot s before the instruction at position p + 1.
SlotAt(p, s) ==
    {n \in InputNodes : df.variables[n] = <<"Slot", s>>}
    \cup {Instructions[q][2] : q \in {q \in 1..p :
                Instructions[q][1] = "Spill" /\ PushedTo(q) = s}}
    \cup {Instructions[q][3] : q \in {q \in 1..p :
                Instructions[q][1] = "Spill" /\ PushedTo(q) + 1 = s}}

\* The Variable v holds the value out after the first p instructions.
Holds(p, v, out) ==
    \/ v[1] = "Register" /\ RegAt(p, v[2]) = out
    \/ v[1] = "Slot" /\ SlotAt(p, v[2]) = {out}

Walking == wkPc \in {"back", "done"}
ColdWalks == {wk.cold[j] : j \in 1..Len(wk.cold)}
Spilled == {Instructions[q][2] : q \in {q \in 1..Len(Instructions) : Instructions[q][1] = "Spill"}}
           \cup {Instructions[q][3] : q \in {q \in 1..Len(Instructions) : Instructions[q][1] = "Spill"}}

\* C4: for every guard of the hot path and every value of its keep_alives
\* that is computed before the guard in the emitted order, the nested walk()
\* of the cold path is told a Variable for the value, and at the guard that
\* register or slot holds the value: the register has not been given to
\* another value, and the slot has been written by the Spill of the value.
C4_LiveInCoverage ==
    Walking =>
        \A c \in ColdWalks :
            /\ \A in \in c.inputs : Holds(c.pos - 1, in[2], in[1])
            /\ \A out \in Range(DfNode(df, c.guard).ka) :
                    DefPos(out) < c.pos => \E in \in c.inputs : in[1] = out

\* The walk is over, and a guard has reported one keep-alive in a slot that a
\* Spill before the guard wrote, another in a register, and a third, which
\* a node of the hot path computed, in a register.
C4_Witness ==
    /\ wkPc = "done"
    /\ \E c \in ColdWalks : \E in1 \in c.inputs, in2 \in c.inputs :
            /\ in1[2][1] = "Slot" /\ in1[1] \in Spilled
            /\ in2[2][1] = "Register"
    /\ \E c \in ColdWalks : \E in \in c.inputs :
            in[1] \notin InputNodes /\ in[2][1] = "Register"

\* C8: the slots in use at a point of the hot path are those in use on entry
\* and two for each Spill emitted before the point, so they never decrease;
\* the k-th Spill of the emitted order gives its two values the two slots
\* after those of the Spills before it, no two values are in the same slot,
\* and the slots_used given to a cold path is at least the one on entry.
C8_SpillMonotonicity ==
    Walking =>
        /\ wk.cg.slots_used = wk.slots_used + 2 * SpillsBefore(wk.i + 1)
        /\ \A q \in 1..Len(Instructions) : Instructions[q][1] = "Spill" =>
                /\ wk.variables[Instructions[q][2]] = <<"Slot", PushedTo(q)>>
                /\ wk.variables[Instructions[q][3]] = <<"Slot", PushedTo(q) + 1>>
        /\ \A x \in AllocNodes(df), y \in AllocNodes(df) :
                (x # y /\ wk.variables[x][1] = "Slot"
                       /\ wk.variables[y][1] = "Slot") =>
                    wk.variables[x] # wk.variables[y]
        /\ \A c \in ColdWalks :
                /\ c.slots_used = wk.slots_used + 2 * SpillsBefore(c.pos)
                /\ c.slots_used >= wk.slots_used

\* The walk is over; slots beyond those of the live-in values were in use
\* on entry, the hot path has two Spills, and a guard after a Spill gave
\* its cold path more slots than there were on entry.
C8_Witness ==
    /\ wkPc = "done"
    /\ wk.slots_used > Cardinality(SlotInputs(df))
    /\ Spilled # {}
    /\ Cardinality(Spilled) > 2
    /\ \E c \in ColdWalks : c.slots_used > wk.slots_used

\* C11: after the code of a Binary Lsl, Lsr or Asr, dest holds what src1
\* held before it shifted by what src2 held before it, wherever dest, src1
\* and src2 are (src1 in RCX, dest RCX and src2 in a slot included); and
\* when dest is not RCX, RCX holds what it held before.
C11_ShiftLowering ==
    (loPc = "done" /\ lowering.action = "Binary" /\ lowering.op \in ShiftOps) =>
        /\ machine.regs[MachineRegister(lowering.dest)] =
                ShiftALU(lowering.op, lowering.prec,
                         ValueIn(lowering.entry, lowering.src1),
                         ValueIn(lowering.entry, lowering.src2))
        /\ MachineRegister(lowering.dest) # RC =>
                machine.regs[RC] = lowering.entry.regs[RC]

\* The truth of a comparison of the words x and y at a precision.
Compares(op, prec, x, y) ==
    CASE op = "Lt" -> Signed(prec, x) < Signed(prec, y)
      [] op = "Ult" -> x % Pow2(PrecBits(prec)) < y % Pow2(PrecBits(prec))
      [] op = "Eq" -> x % Pow2(PrecBits(prec)) = y % Pow2(PrecBits(prec))

\* C12: with pool word 0 equal to zero, after the code of a Binary Lt, Ult
\* or Eq, dest is all-ones at the precision if src1 compares so with src2
\* (as they were before the code) and zero otherwise, wherever the operands
\* are, dest = src1, dest = src2 and operands in slots included.
C12_BooleanEncoding ==
    (loPc = "done" /\ lowering.action = "Binary" /\ lowering.op \in CompareOps
                   /\ lowering.entry.mem[0] = 0) =>
        machine.regs[MachineRegister(lowering.dest)] =
            IF Compares(lowering.op, lowering.prec,
                        ValueIn(lowering.entry, lowering.src1),
                        ValueIn(lowering.entry, lowering.src2))
            THEN Pow2(PrecBits(lowering.prec)) - 1 ELSE 0

\* A signed comparison of operands whose unsigned order is the opposite has
\* run with dest = src2 and src1 in a slot, and it was true.
C12_Witness ==
    /\ loPc = "done" /\ lowering.action = "Binary" /\ lowering.op = "Lt"
    /\ lowering.src2 = <<"Register", lowering.dest>>
    /\ lowering.src1[1] = "Slot"
    /\ Compares("Lt", lowering.prec, ValueIn(lowering.entry, lowering.src1),
                                     ValueIn(lowering.entry, lowering.src2))
    /\ ~Compares("Ult", lowering.prec, ValueIn(lowering.entry, lowering.src1),
                                       ValueIn(lowering.entry, lowering.src2))
    /\ machine.regs[MachineRegister(lowering.dest)] = Pow2(PrecBits(lowering.prec)) - 1

\* The signed maximum or minimum of two words at a precision.
Selects(op, prec, x, y) ==
    IF (op = "Max") = (Signed(prec, x) < Signed(prec, y))
    THEN y % Pow2(PrecBits(prec)) ELSE x % Pow2(PrecBits(prec))

\* C13: after the code of a Binary Max (Min), dest holds the signed maximum
\* (minimum) of what src1 and src2 held before it, wherever the operands
\* are, dest = src2, dest = src1, src1 = src2 and operands in slots included.
C13_MaxMinLowering ==
    (loPc = "done" /\ lowering.action = "Binary" /\ lowering.op \in SelectOps) =>
        machine.regs[MachineRegister(lowering.dest)] =
            Selects(lowering.op, lowering.prec,
                    ValueIn(lowering.entry, lowering.src1),
                    ValueIn(lowering.entry, lowering.src2))

\* The absolute value of a word at a precision; that of the minimum signed
\* value is the value itself.
AbsOf(prec, x) ==
    IF Signed(prec, x) < 0 THEN (0 - Signed(prec, x)) % Pow2(PrecBits(prec))
    ELSE Signed(prec, x)

\* C14: after the code of a Unary Abs, dest holds the absolute value at the
\* precision of what src held before it, whether src is dest, another
\* register or a slot; Abs of the minimum signed value is that value.
C14_AbsLowering ==
    (loPc = "done" /\ lowering.action = "Unary" /\ lowering.op = "Abs") =>
        /\ machine.regs[MachineRegister(lowering.dest)] =
                AbsOf(lowering.prec, ValueIn(lowering.entry, lowering.src1))
        /\ 2 * (ValueIn(lowering.entry, lowering.src1) % Pow2(PrecBits(lowering.prec)))
                = Pow2(PrecBits(lowering.prec)) =>
            machine.regs[MachineRegister(lowering.dest)] =
                ValueIn(lowering.entry, lowering.src1) % Pow2(PrecBits(lowering.prec))

\* Abs of the minimum signed value has run with src = dest.
C14_Witness ==
    /\ loPc = "done" /\ lowering.action = "Unary" /\ lowering.op = "Abs"
    /\ lowering.src1 = <<"Register", lowering.dest>>
    /\ 2 * (ValueIn(lowering.entry, lowering.src1) % Pow2(PrecBits(lowering.prec)))
            = Pow2(PrecBits(lowering.prec))

\* C15: after the code of a Binary Lsl or Lsr whose count (what src2 held)
\* is at least the width of the precision, dest holds zero: the count is not
\* reduced modulo the width.  (Stated for dest and src1 outside RCX.)
C15_ShiftTooFar ==
    (/\ loPc = "done" /\ lowering.action = "Binary" /\ lowering.op \in {"Lsl", "Lsr"}
     /\ MachineRegister(lowering.dest) # RC
     /\ lowering.src1 # <<"Register", RCIndex>>
     /\ ValueIn(lowering.entry, lowering.src2) >= PrecBits(lowering.prec)) =>
        machine.regs[MachineRegister(lowering.dest)] = 0

\* C16: for every P32 integer x, negative ones included, simulating
\* Constant(P32, R, x) and lowering the resulting node leaves in R the low
\* W32 bits of x, zero-extended to the whole word; the node is emitted as a
\* P64 constant of the masked value.
C16_ConstantFolding ==
    (lowering # Idle /\ lowering.action = "Constant" /\ lowering.prec = "P32") =>
        /\ lowering.code = <<<<"const", "P64", MachineRegister(lowering.dest),
                               lowering.imm % Pow2(W32)>>>>
        /\ loPc = "done" =>
                machine.regs[MachineRegister(lowering.dest)] = lowering.imm % Pow2(W32)

\* A negative P32 constant has been simulated, lowered and executed.
C16_Witness ==
    /\ loPc = "done" /\ lowering.action = "Constant" /\ lowering.prec = "P32"
    /\ lowering.imm < 0
    /\ machine.regs[MachineRegister(lowering.dest)] = lowering.imm + Pow2(W32)

\* What a TestOp says of the word x at a precision.
TestHolds(op, prec, x, mask, value) ==
    LET m == Pow2(PrecBits(prec))
    IN  CASE op = "Bits" -> BitAnd(x % m, mask % m) = value % m
          [] op = "Lt" -> Signed(prec, x) < value
          [] op = "Ge" -> Signed(prec, x) >= value
          [] op = "Ult" -> x % m < value % m
          [] op = "Uge" -> x % m >= value % m
          [] op = "Eq" -> x % m = value % m
          [] op = "Ne" -> x % m # value % m
          [] op = "Always" -> TRUE

\* C17: the code of lower_test_op for a TestOp on a discriminant in a
\* register or in a slot jumps to false_label exactly when the test is false
\* of what the discriminant held, and falls through when it is true; Always
\* emits no code; no register other than TEMP and no pool word is modified.
C17_GuardLowering ==
    (loPc = "done" /\ lowering.action = "Test") =>
        /\ machine.taken =
                ~TestHolds(lowering.op, lowering.prec,
                           ValueIn(lowering.entry, lowering.src1),
                           lowering.mask, lowering.imm)
        /\ lowering.op = "Always" => lowering.code = <<>>
        /\ \A r \in MachineRegs \ {TEMP} : machine.regs[r] = lowering.entry.regs[r]
        /\ machine.mem = lowering.entry.mem

\* An unsigned test on a discriminant in a slot was true although the
\* signed test of the same operands is false, and the code fell through.
C17_Witness ==
    /\ loPc = "done" /\ lowering.action = "Test" /\ lowering.op = "Ult"
    /\ lowering.src1[1] = "Slot"
    /\ ~machine.taken
    /\ ~TestHolds("Lt", lowering.prec, ValueIn(lowering.entry, lowering.src1),
                  lowering.mask, lowering.imm)

\* The offsets that the instructions of a code read and write in the pool.
SlotOffsets(code) ==
    {code[i][4][2] : i \in {j \in DOMAIN code : code[j][1] = "load"}}
    \cup {code[i][3][2] : i \in {j \in DOMAIN code : code[j][1] = "store"}}

\* The Slots among the operands of the Move that was lowered.
MovedSlots ==
    {v[2] : v \in {w \in {lowering.dest, lowering.src1} : w[1] = "Slot"}}

\* C20: slot s is addressed at POOL + 8*(s+1): the load or store emitted
\* for a Move addresses exactly the words 8*(s+1) of its slots, distinct
\* slots are at least 8 bytes apart, no slot is addressed at offset 0, and
\* the zero word at offset 0 is not written.
C20_PoolLayout ==
    (loPc = "done" /\ lowering.action = "Move") =>
        /\ SlotOffsets(lowering.code) = {8 * (s + 1) : s \in MovedSlots}
        /\ \A s \in MoveSlots, t \in MoveSlots :
                s < t => slot_address(t)[2] - slot_address(s)[2] >= 8
        /\ 0 \notin SlotOffsets(lowering.code)
        /\ machine.mem[0] = lowering.entry.mem[0]

RECURSIVE RunCode(_, _, _)
\* The machine after the instructions of code from the i-th on.
RunCode(m, code, i) ==
    IF i > Len(code) THEN m ELSE RunCode(Exec(m, code[i]), code, i + 1)

\* The registers pushed and popped by a code, in order.
RegistersOf(q) == [i \in 1..Len(q) |-> q[i][2]]
Pushed(code) == RegistersOf(SelectSeq(code, LAMBDA ins : ins[1] = "push"))
Popped(code) == RegistersOf(SelectSeq(code, LAMBDA ins : ins[1] = "pop"))
Reversed(q) == [i \in 1..Len(q) |-> q[Len(q) + 1 - i]]

\* C19: the prologue pushes the callee-saved registers in their order, with
\* one more push when their number is even, so that RSP is a multiple of 16
\* between the prologue's pushes and the epilogue's pops; the epilogue pops
\* the same registers in reverse order; and after ret every callee-saved
\* register has its entry value, the stack is what it was before the call,
\* the machine has returned to the caller, and the result register holds
\* what STATE_INDEX held when the epilogue began.
C19_CallingConvention ==
    (loPc \in {"running", "done"} /\ lowering.action = "Function") =>
        LET code == lowering.code
            n == Len(Pushed(code))
        IN  /\ Pushed(code) =
                    (IF Len(CALLEE_SAVES) % 2 = 0 THEN <<CALLEE_SAVES[1]>> ELSE <<>>)
                    \o CALLEE_SAVES
            /\ Popped(code) = Reversed(Pushed(code))
            /\ (loPc = "running" /\ lowering.ip > n /\ lowering.ip < Len(code) - n)
                    => Rsp(machine) % 16 = 0
            /\ loPc = "done" =>
                /\ \A i \in DOMAIN CALLEE_SAVES :
                        machine.regs[CALLEE_SAVES[i]] = lowering.entry.regs[CALLEE_SAVES[i]]
                /\ machine.stack = <<>>
                /\ machine.ret = ReturnAddress
                /\ machine.regs[RESULTS[1]] =
                        RunCode(lowering.entry,
                                lower_prologue(<<>>) \o lowering.body, 1).regs[STATE_INDEX]

\* A function whose code overwrote a callee-saved register has returned.
C19_Witness ==
    /\ loPc = "done" /\ lowering.action = "Function"
    /\ lowering.body # <<>>
    /\ lowering.body[1][3] = CALLEE_SAVES[1]
    /\ lowering.body[1][4] # lowering.entry.regs[CALLEE_SAVES[1]]
    /\ machine.ret = ReturnAddress

\* The target of a branch: where it ends plus its displacement.
TargetOf(site) == site.end + site.disp
Branches(code) == {i \in DOMAIN code : code[i].kind \in BranchKinds}

\* C18: every jump, conditional jump and call assembled toward a label
\* targets the label's current target, before and after any number of
\* patches; Lowerer::patch returns the label's previous target, None the
\* first time; patching to the same position again leaves the code
\* unchanged; and no patch finds a branch with an unexpected target.
C18_BranchPatching ==
    paPc # "idle" =>
        LET n == Len(pa.targets)
        IN  /\ paPc # "panicked"
            /\ \A i \in Branches(pa.l.code) :
                    pa.l.code[i].disp = Disp(pa.l.label.target, pa.l.code[i].end)
            /\ n = 0 => pa.l.label.target = None
            /\ n > 0 =>
                /\ pa.l.label.target = Some(pa.targets[n])
                /\ \A i \in Branches(pa.l.code) :
                        TargetOf(pa.l.code[i]) = pa.targets[n]
                /\ pa.returned.target = IF n = 1 THEN None ELSE Some(pa.targets[n - 1])
                /\ (n > 1 /\ pa.targets[n] = pa.targets[n - 1]) => pa.before
                        = SubSeq(pa.l.code, 1, Len(pa.before))

\* Branches of the three kinds were assembled before and after the label
\* was patched to one position, and the label was patched to another.
C18_Witness ==
    /\ paPc = "lowering"
    /\ Len(pa.targets) = 2 /\ pa.targets[1] # pa.targets[2]
    /\ {pa.l.code[i].kind : i \in Branches(pa.before)} = BranchKinds
    /\ \E i \in Branches(pa.l.code) : pa.l.code[i].end <= pa.targets[1]
    /\ \E i \in Branches(pa.l.code) : pa.l.code[i].end > pa.targets[1]

(***************************************************************************)
(* Further properties of the Simulation.                                   *)
(***************************************************************************)
\* C21: after Store(dest, src, (addr, w), mask) is simulated, dest is bound
\* to the Out that src was bound to before the action, for every choice of
\* dest, src and addr, including dest = src and dest = addr.
C21_StoreBinding ==
    [][\A dest \in SimRegisters, src \in SimValues, addr \in SimValues,
          alias_mask \in StoreMasks :
            (/\ simPc = "running"
             /\ SimBound(sim, <<src, addr>>)
             /\ simN' = simN + 1
             /\ sim' = SimStore(sim, dest, src, addr, alias_mask))
            => sim'.bindings[dest] = sim.bindings[src]]_vars

\* C22: simulating Move(dest, src) binds dest to the Out bound to src and
\* changes nothing else: the dataflow graph, the other bindings, the most
\* recent Store, the open loads and the most recent stack node are kept.
C22_MoveFrame ==
    [][\A dest \in SimValues, src \in SimValues :
            (/\ simPc = "running"
             /\ SimBound(sim, <<src>>)
             /\ simN' = simN + 1
             /\ sim' = SimMove(sim, dest, src))
            => /\ sim'.bindings[dest] = sim.bindings[src]
               /\ \A v \in SimValues \ {dest} : sim'.bindings[v] = sim.bindings[v]
               /\ sim'.dataflow = sim.dataflow
               /\ sim'.store = sim.store
               /\ sim'.loads = sim.loads
               /\ sim'.stack = sim.stack]_vars

\* After a Store and a stack operation, two values are bound to one Out of
\* a node that was added before them: a Move has rebound one of them.
C22_Witness ==
    /\ simPc = "running" /\ simN = MaxActions
    /\ Len(sim.dataflow) = simN
    /\ sim.store # entry_node /\ sim.stack # entry_node
    /\ sim.bindings[0] = sim.bindings[1]
    /\ sim.bindings[0] # NoOut
    /\ sim.bindings[0][1] = entry_node

SimStackNodes == {n \in SimNodes : sim.dataflow[n].op \in {"Push", "Pop"}}
SimMemoryNodes == {n \in SimNodes : sim.dataflow[n].op \in {"Load", "Store"}}
SimStores == {n \in SimNodes : SimIs(n, "Store")}
\* The greatest node of a set of nodes that is before n, or the entry node.
SimPrevious(nodes, n) ==
    IF \E m \in nodes : m < n
    THEN CHOOSE m \in nodes : m < n /\ \A k \in nodes : k < n => k <= m
    ELSE entry_node

\* C23: the stack nodes (those of Debug, Push and Pop) form one chain: each
\* depends on exactly the previous stack node, or the entry node for the
\* first, so never on a Load or a Store; no Load or Store depends on a
\* stack node; the exit Convention node depends on the most recent Store
\* and on the most recent stack node, and its inputs are the Outs bound to
\* the live-out values.
C23_StackChain ==
    simPc # "idle" =>
        /\ \A n \in SimStackNodes :
                sim.dataflow[n].deps = <<SimPrevious(SimStackNodes, n)>>
        /\ \A n \in SimMemoryNodes : SimDeps(n) \cap SimStackNodes = {}
        /\ simPc = "finished" =>
            LET exit == Len(sim.dataflow)
            IN  /\ SimIs(exit, "Convention")
                /\ sim.dataflow[exit].deps =
                        <<SimPrevious(SimStores, exit), SimPrevious(SimStackNodes, exit)>>
                /\ \E outputs \in SimOutputs :
                        sim.dataflow[exit].ins =
                            [i \in 1..Len(outputs) |-> sim.bindings[outputs[i]]]

\* A finished simulation with two stack nodes after a Store.
C23_Witness ==
    /\ simPc = "finished"
    /\ \E a \in SimStores, b \in SimStackNodes, c \in SimStackNodes : a < b /\ b < c

(***************************************************************************)
(* Allocator::spill_until, at the point where add_node calls it.           *)
(***************************************************************************)
\* The numbers of registers that spill_until is asked for.
MaxRequired == 3
\* The number of hot-path nodes of the graphs that spill_until is tried on.
MaxSpillNodes == 2

SpillInit ==
    /\ AllocStart(DataflowsOf(NodeSeqs(MaxSpillNodes), LiveOnExit))
    /\ SimIdle /\ LowIdle /\ WalkIdle /\ PatchIdle /\ RestIdle

SpecSpill == SpillInit /\ [][AllocNext]_vars

\* The Allocator when the next add_node has popped its keep_alives.
BeforeSpill == pop_uses(al, nodes_rev[Len(nodes_rev)][2])
DirtyRegisters(a) == {r \in all_registers : a.dirty[r]}
\* The registers that became clean from a0 to a1, in the order freed.
Freed(a0, a1) == SubSeq(a1.clean, Len(a0.clean) + 1, Len(a1.clean))
\* The items that were placed from a0 to a1.
Placed(a0, a1) == SubSeq(a1.placed, Len(a0.placed) + 1, Len(a1.placed))
\* The position in the usage stack of the next use of the occupant of r.
NextUse(a, r) == UsageTopmost(a.usage, a.regs[r])

SpillUntilWorks(a0, k) ==
    \A a1 \in {spill_until(a0, k)} :
    \A victims \in {Freed(a0, a1)}, spills \in {Placed(a0, a1)} :
    LET missing == IF PoolNumClean(a0) >= k THEN 0 ELSE k - PoolNumClean(a0)
    IN  a1.err = "" =>
            /\ PoolNumClean(a1) >= k
            /\ Len(spills) = (missing + 1) \div 2
            /\ Len(victims) = 2 * Len(spills)
            /\ \A i \in 1..Len(spills) :
                    spills[i].item = Spill(a0.regs[victims[2 * i - 1]],
                                           a0.regs[victims[2 * i]])
            /\ \A i \in 1..Len(victims) :
                    \A rest \in {DirtyRegisters(a0) \ {victims[j] : j \in 1..(i - 1)}},
                       use \in {NextUse(a0, victims[i])} :
                        /\ victims[i] \in rest
                        /\ \A q \in rest : use <= NextUse(a0, q)
                        /\ \A q \in rest : use = NextUse(a0, q) => victims[i] <= q

\* C30: spill_until(k) frees two registers and places one Spill(x, y) of
\* their occupants for each iteration that starts with fewer than k clean
\* registers; each victim was dirty, and among the registers still dirty it
\* is the one whose occupant has the lowest next use in the usage stack, the
\* least register among equals; afterwards at least k registers are clean.
C30_SpillUntil ==
    (alPc = "adding" /\ nodes_rev # <<>>) =>
        \A a0 \in {BeforeSpill} : \A k \in 1..MaxRequired : SpillUntilWorks(a0, k)

\* An allocation that has finished after spill_until placed a Spill of
\* the occupants of two registers.
C30_Witness ==
    /\ alPc = "finished"
    /\ al.err = ""
    /\ \E i \in 1..Len(al.placed) :
            /\ al.placed[i].item[1] = "Spill"
            /\ al.placed[i].item[2] # al.placed[i].item[3]
            /\ ~al.dirty[al.allocation[al.placed[i].item[2]]]
               \/ al.regs[al.allocation[al.placed[i].item[2]]] # al.placed[i].item[2]

(***************************************************************************)
(* The spill stress.                                                       *)
(***************************************************************************)
\* The Spill instructions placed so far.
SpillItems == {i \in 1..Len(al.placed) : al.placed[i].item[1] = "Spill"}
\* The Constants of the hot path.
StressValues == {NodeId(k) : k \in 1..Len(df.nodes)}

\* C25: with StressConstants Constants all live on exit and 13 registers,
\* the schedule has at least StressConstants - 13 Spill instructions,
\* allocate() returns, and at the end of walk() the Constants are in
\* StressConstants distinct slots.
C25_SpillStress ==
    (alPc # "idle" /\ Len(df.nodes) = StressConstants) =>
        /\ nodes_rev = <<>> => Cardinality(SpillItems) >= StressConstants - NUM_REGISTERS
        /\ alPc # "panicked"
        /\ wkPc = "done" =>
            /\ \A n \in StressValues : wk.variables[n][1] = "Slot"
            /\ \A n \in StressValues, m \in StressValues :
                    n # m => wk.variables[n] # wk.variables[m]

\* C29: on the hot paths of the guard tests (guards that test the values of
\* a chain in any order, the reverse of the order of computation included,
\* successive guards on one value, guards on a live-in value) no expect and
\* no assertion of allocate() or of walk() fails: every add_node and finish
\* returns without an error, every output of a placed node has a destination
\* register, and walk() ends having made one nested walk() per guard.
NextAllocStep ==
    IF nodes_rev # <<>>
    THEN add_node(df, al, nodes_rev[Len(nodes_rev)][1], nodes_rev[Len(nodes_rev)][2])
    ELSE finish(al, Len(df.outputs))

TestedBy(k) == df.nodes[k].ins[1]

C28_AllStatesReachable ==
    /\ Cardinality(BeetleStates) = 21
    /\ cp.seen \subseteq BeetleStates
    /\ \A state \in cp.seen : Range(new_states(state)) \subseteq BeetleStates
    /\ cp.done \subseteq cp.seen
    /\ cp.seen = cp.done => cp.done = BeetleStates

\* Compilation has ended, and it compiled Halt and the four states that only
\* Ploop and Ploopi name.
C28_Witness ==
    /\ cp.seen = cp.done
    /\ {"Halt", "Ploopp", "Ploopm", "Ploopip", "Ploopim"} \subseteq cp.done

\* C26: run from State::Root with m and n on the data stack and the address
\* of a HALT instruction on the return stack, the Ackermann object code
\* eventually reaches State::Halt, and the item popped then is A(m, n), with
\* BSP = BS0 and BRP = BR0 after the pop.
AckermannDone ==
    /\ vm.host = "done"
    /\ vm.final = "Halt"
    /\ ~vm.s.fault
    /\ vm.result = Ackermann(vm.m, vm.n)
    /\ VM_get(vm.s, "BS0") = VM_get(vm.s, "BSP")
    /\ VM_get(vm.s, "BR0") = VM_get(vm.s, "BRP")

C26_Ackermann == <>[]AckermannDone

\* The run of A(MaxM, MaxN) has ended, with more than one item on each stack
\* at some point: the result differs from both arguments.
C26_Witness ==
    /\ AckermannDone
    /\ vm.m = MaxM
    /\ vm.n = MaxN
    /\ vm.result > vm.m + vm.n + 1

\* C27: while execute() runs, the Jit and its pool are held by the generated
\* code and not by the host; every step in which the host reads or writes a
\* slot (push, rpush, the set of run, pop) starts when no execute() is
\* running; and the pool and the memory change during a run only by a step
\* of the generated code.
Executing == vm.state # "None"

C27_PoolOwnership ==
    [][/\ Executing => vm.owner = "code"
       /\ vm'.host # vm.host => ~Executing /\ vm.owner = "host"
       /\ (Executing /\ vm'.s # vm.s) => (vm.owner = "code" /\ vm'.host = vm.host)]_vars

\* The generated code is running, on its way back from the first call of
\* the word, while the next thing the host does is a pop.
C27_Witness ==
    /\ Executing
    /\ vm.owner = "code"
    /\ vm.host = "pop"
    /\ VM_get(vm.s, "BRP") # VM_get(vm.s, "BR0")
    /\ vm.state = "Qbranchi"

\* The moves that are left to do, and a single cycle of three registers.
Pending(d2s) == {d \in DOMAIN d2s : d2s[d] # d}
SingleCycle3(d2s) ==
    /\ Cardinality(Pending(d2s)) = 3
    /\ {d2s[d] : d \in Pending(d2s)} = Pending(d2s)
    /\ \A d \in Pending(d2s) : d[1] = "Register" /\ d2s[d2s[d]] # d

\* The number of Moves that write the scratch location.
ScratchWrites(m) ==
    Cardinality({i \in 1..Len(moves(m.d2s, m.temp)) : moves(m.d2s, m.temp)[i][1] = m.temp})

\* C24: the Moves appended at the exit of an EBB implement the parallel
\* assignment of the exit Convention: once they have run, every destination
\* holds what its source held before them, for every mapping, cycles
\* included; the scratch location is an allocatable register that is not a
\* destination, or a slot that is not one when every allocatable register
\* is a destination; a single cycle of three registers writes the scratch
\* location exactly once.
C24_ParallelMove ==
    /\ mv.pc # "finish" => mv.temp \notin DOMAIN mv.d2s
    /\ (mv.pc # "finish" /\ SingleCycle3(mv.d2s)) => ScratchWrites(mv) = 1
    /\ mv.pc = "done" => \A d \in DOMAIN mv.d2s : mv.holds[d] = mv.d2s[d]

(***************************************************************************)
(* The end of allocate().                                                  *)
(***************************************************************************)
\* The uses that the nodes still to be added and the outputs will pop.
UsesLeft ==
    LET RECURSIVE sum(_)
        sum(i) == IF i = 0 THEN 0 ELSE nodes_rev[i][2] + sum(i - 1)
    IN  sum(Len(nodes_rev)) + Len(df.outputs)

\* C31: the usage stack holds exactly the uses that remain to be popped, so
\* that each use pushed by allocate() is popped once; when every node has
\* been added and the uses of the live-out values are popped, neither
\* assertion of finish fails, the usage stack is empty and every register,
\* those live on entry and those allocated to an output, is clean.
C31_FinishClean ==
    /\ alPc = "adding" => Len(al.usage) = UsesLeft
    /\ (alPc = "adding" /\ nodes_rev = <<>>) =>
            \A a \in {finish(al, Len(df.outputs))} :
                /\ a.err # "assert_eq!(self.usage.len(), 0)"
                /\ a.err # "assert!(all registers are clean)"
                /\ a.err = "" =>
                    /\ a.usage = <<>>
                    /\ \A r \in all_registers : ~a.dirty[r]
    /\ Finished =>
            /\ al.usage = <<>>
            /\ \A r \in all_registers : ~al.dirty[r]
            /\ Range(al.clean) = all_registers

\* allocate() has returned for a graph with a register live on entry whose
\* value is live on exit, and a node whose output got a register.
C31_Witness ==
    /\ Finished
    /\ al.err = ""
    /\ \E n \in InputNodes : al.allocation[n] # Absent /\ n \in Range(df.outputs)
    /\ \E k \in 1..Len(df.nodes) : al.allocation[NodeId(k)] # Absent

\* C32: no step of allocate() frees a register that is already clean, be it
\* in pop_use at the last use of a value, in free_a_register or at the
\* immediate free of an unused output, and the occupant of every dirty
\* register has a use left in the usage stack.
C32_FreeOnlyDirty ==
    /\ al.err # "Register is not dirty"
    /\ alPc = "adding" =>
            \A r \in all_registers :
                al.dirty[r] =>
                    /\ al.regs[r] # Absent
                    /\ UsageTopmost(al.usage, al.regs[r]) # 0

(***************************************************************************)
(* The order of a Spill and the readers of its values.  The hot paths      *)
(* tried here compute a Binary (latency 3) whose value, with the live-in   *)
(* value 3, is needed last, one or two Constants that force the Spill of   *)
(* these two values, a Guard that keeps the other live-in values alive,    *)
(* and a Guard that tests the spilled live-in value 3.                     *)
(***************************************************************************)
OrderGuard(x, dep, ka) == DfRec("Guard", <<x>>, <<dep>>, FALSE, <<1>>, 0, 1, ka)
OrderBinary == DfRec("Binary", <<1, 2>>, <<>>, TRUE, <<0, 0>>, 3, 2, <<>>)
OrderConstant == DfRec("Constant", <<>>, <<>>, TRUE, <<>>, 0, 1, <<>>)
OrderKeepAlives == <<1, 2>> \o Ascending(5, NUM_REGISTERS - 1)

OrderPaths ==
    {<<OrderBinary, OrderConstant,
       OrderGuard(4, 0, OrderKeepAlives), OrderGuard(3, NodeId(3), ka)>> :
            ka \in {<<>>, <<NodeId(2)>>}}
    \cup {<<OrderBinary, OrderConstant, OrderConstant,
            OrderGuard(4, 0, OrderKeepAlives), OrderGuard(3, NodeId(4), ka)>> :
            ka \in {<<>>, <<NodeId(2)>>, <<NodeId(3)>>, <<NodeId(2), NodeId(3)>>}}

OrderDataflows ==
    DataflowsOf(OrderPaths, {<<NumInputs + 1, FALSE>>, <<NumInputs + 1, TRUE>>,
                             <<NumInputs - 1, TRUE>>})

OrderInit ==
    /\ AllocStart(OrderDataflows)
    /\ \E slots_used \in EnteringSlots(df) :
        wk = [coldness |-> Coldness,
              slots_used |-> slots_used,
              marks |-> Flood(df, Coldness),
              variables |-> InputVariables(df),
              cg |-> Idle, i |-> 0, cold |-> <<>>, discriminants |-> <<>>]
    /\ wkPc = "allocate"
    /\ SimIdle /\ LowIdle /\ PatchIdle /\ RestIdle

SpecOrder == OrderInit /\ [][WalkNext]_vars

SpillPositions == {q \in 1..Len(Instructions) : Instructions[q][1] = "Spill"}
NodePositions == {p \in 1..Len(Instructions) : Instructions[p][1] = "Node"}
ReadsAt(p) == Range(DfNode(df, Instructions[p][2]).ins)
\* The index in the order of add_item of the instruction emitted at p.
AddedAt(p) == CHOOSE i \in 1..Len(al.placed) : PlacerPos(al.placed, i) = p

\* CodeGen::read at the instruction emitted at p: the backward loop has
\* undone the Spills from p on.
ReadVariable(p, v) ==
    IF \E q \in SpillPositions : q >= p /\ v \in {Instructions[q][2], Instructions[q][3]}
    THEN <<"Register", al.allocation[v]>>
    ELSE wk.variables[v]

\* C33: in the emitted order each Spill(x, y) comes after the nodes that
\* produce x and y and finds both still in their registers; a node that
\* reads x or y from its slot (the Variable that CodeGen::read answers at
\* the node) comes after the Spill that wrote the slot, and a reader emitted
\* before the Spill, also one added to the allocator after it, reads the
\* register, which still holds the value.
C33_SpillOrder ==
    Walking =>
        \A q \in SpillPositions : \A v \in {Instructions[q][2], Instructions[q][3]} :
            /\ DefPos(v) < q
            /\ RegAt(q - 1, al.allocation[v]) = v
            /\ \A p \in NodePositions : v \in ReadsAt(p) =>
                    /\ Holds(p - 1, ReadVariable(p, v), v)
                    /\ ReadVariable(p, v)[1] = "Slot" => p > q

\* The walk is over; a Spill wrote the value of a node of the hot path and
\* a live-in value, a Guard added to the allocator after the Spill reads
\* the live-in value and is emitted before the Spill, and its cold path has
\* been told the register.
C33_Witness ==
    /\ wkPc = "done"
    /\ \E q \in SpillPositions :
        /\ Instructions[q][2] \notin InputNodes
        /\ \E p \in NodePositions :
            /\ Instructions[q][3] \in ReadsAt(p)
            /\ AddedAt(p) > AddedAt(q)
            /\ p < q
            /\ ReadVariable(p, Instructions[q][3])[1] = "Register"
            /\ wk.variables[Instructions[q][3]][1] = "Slot"
            /\ \E j \in 1..Len(wk.discriminants) :
                    wk.discriminants[j] = ReadVariable(p, Instructions[q][3])

\* C33 as stated: every node added to the allocator after a Spill(x, y)
\* that reads x or y, which the final Variable map puts in slots, comes
\* after the Spill in the emitted order, and the Spill after the nodes that
\* produce x and y.
C33_ReadersAfterSpill ==
    Finished =>
        \A q \in SpillPositions : \A v \in {Instructions[q][2], Instructions[q][3]} :
            /\ DefPos(v) < q
            /\ \A p \in NodePositions :
                    (v \in ReadsAt(p) /\ AddedAt(p) > AddedAt(q)) => p > q

(***************************************************************************)
(* Lowerer::lower_action for Action::Store.  The machine gets a data       *)
(* memory: `data[a]` is the word at address a, and a narrow store replaces *)
(* the low bits of that word.  Width::Eight covers the whole word,         *)
(* Width::Four half of it and Width::Two a quarter.                        *)
(***************************************************************************)
Widths == {"Two", "Four", "Eight"}
WidthBits(width) ==
    CASE width = "Eight" -> W64
      [] width = "Four" -> W32
      [] width = "Two" -> W32 \div 2

DataAddresses == 0..(Pow2(W64) - 1)
DataMachines == {[regs |-> m.regs, mem |-> m.mem, flags |-> m.flags, taken |-> m.taken,
                  stack |-> m.stack, ret |-> m.ret,
                  data |-> [a \in DataAddresses |-> Pow2(W64) - 1 - a]] : m \in Machines}

\* Assembler::store_narrow: the low bits of register src replace those of
\* the word at the address in register addr[1] plus addr[2].
store_narrow(m, width, addr, src) ==
    [m EXCEPT !.data[(m.regs[addr[1]] + addr[2]) % Pow2(W64)] =
        (@ - (@ % Pow2(WidthBits(width)))) + (m.regs[src] % Pow2(WidthBits(width)))]

ExecData(m, ins) ==
    IF ins[1] = "store_narrow" THEN store_narrow(m, ins[2], ins[3], ins[4])
    ELSE Exec(m, ins)

\* lower_action, lines 530-537
lower_store(a, dest, src, addr, width) ==
    LET a1 == src_to_register(a, src, TEMP)
        a2 == src_to_register(a1, addr, dest)
        a3 == move_(a2, dest, src_register(addr, dest))
    IN  Append(a3, <<"store_narrow", width, <<src_register(addr, dest), 0>>,
                     src_register(src, TEMP)>>)

StoreInit ==
    /\ machine \in DataMachines
    /\ lowering = Idle
    /\ loPc = "ready"
    /\ SimIdle /\ AllocIdle /\ WalkIdle /\ PatchIdle /\ RestIdle

\* Lowerer::lower_action for Action::Store
LowerStore ==
    /\ loPc = "ready"
    /\ \E dest \in LowRegisters, src \in CodeValues, addr \in CodeValues, width \in Widths :
        lowering' = [action |-> "Store", op |-> "Store", prec |-> "P64", dest |-> dest,
                     src1 |-> src, src2 |-> addr, imm |-> 0, width |-> width,
                     code |-> lower_store(<<>>, MachineRegister(dest), LowValue(src),
                                          LowValue(addr), width),
                     ip |-> 1, entry |-> machine]
    /\ loPc' = "running"
    /\ UNCHANGED <<machine, simVars, allocVars, walkVars, patchVars, restVars>>

\* The machine executes the next instruction of the Store.
ExecuteStore ==
    /\ loPc = "running"
    /\ lowering.ip <= Len(lowering.code)
    /\ machine' = ExecData(machine, lowering.code[lowering.ip])
    /\ lowering' = [lowering EXCEPT !.ip = @ + 1]
    /\ loPc' = IF lowering.ip = Len(lowering.code) THEN "done" ELSE "running"
    /\ UNCHANGED <<simVars, allocVars, walkVars, patchVars, restVars>>

StoreNext == LowerStore \/ ExecuteStore

SpecStore == StoreInit /\ [][StoreNext]_vars

StoreDone == loPc = "done" /\ lowering.action = "Store"
\* The word at `addr` after the low bits of `src` are stored over `old`.
Stored(old, src, width) ==
    (old - (old % Pow2(WidthBits(width)))) + (src % Pow2(WidthBits(width)))

\* C34: the lowered Store(dest, src, (addr, w)) writes the low w bytes of
\* src's value before the instruction to memory at addr's value before the
\* instruction, changes no other memory, and leaves a copy of addr in dest,
\* wherever the operands are: src or addr in a slot, src = dest,
\* addr = dest, src = addr.
C34_StoreLowering ==
    StoreDone =>
        /\ machine.regs[MachineRegister(lowering.dest)] = ValueIn(lowering.entry, lowering.src2)
        /\ \A a \in DataAddresses :
            machine.data[a] =
                IF a = ValueIn(lowering.entry, lowering.src2)
                THEN Stored(lowering.entry.data[a], ValueIn(lowering.entry, lowering.src1),
                            lowering.width)
                ELSE lowering.entry.data[a]

\* The Simulation of the Store being lowered, from Simulation::new on the
\* two operand registers; the AliasMask does not matter to the bindings.
StoreSimulation ==
    SimStore(SimNew(<<0, 1>>), lowering.dest, lowering.src1[2], lowering.src2[2], 1)

\* The value of an Out of that Simulation: a live-in value is what its
\* register held on entry, and the output of the Store node is what the
\* lowered Store leaves in the register of its output.
StoreOutValue(out) ==
    IF out[1] = entry_node THEN lowering.entry.regs[MachineRegister(out[2] - 1)]
    ELSE ValueIn(lowering.entry, lowering.src2)

\* C35: the value that the lowered Store leaves in dest is the value of the
\* Out that the Simulation binds dest to after the same Store, so a later
\* reader of dest sees the same value in the dataflow graph as in the code.
C35_StoreDestAgrees ==
    (/\ StoreDone
     /\ lowering.src1[1] = "Register"
     /\ lowering.src2[1] = "Register") =>
        machine.regs[MachineRegister(lowering.dest)]
            = StoreOutValue(SimLookup(StoreSimulation, lowering.dest))

\* C36: an action (or finish) that reads a Value with no binding panics with
\* "Read a dead value" and adds no node: the panicking step leaves the
\* dataflow graph and the bindings as they were, a step that adds a node
\* reads only Values bound before it, and so no node ever has an operand
\* that is not the Out of a node.
C36_DeadValue ==
    /\ [](\A n \in SimNodes : \A i \in 1..Len(sim.dataflow[n].ins) :
            /\ sim.dataflow[n].ins[i] # NoOut
            /\ sim.dataflow[n].ins[i][1] < n)
    /\ [][simPc' = "panicked" =>
            /\ sim' = sim
            /\ \E v \in SimValues : sim.bindings[v] = NoOut]_vars
    /\ [][Len(sim'.dataflow) > Len(sim.dataflow) =>
            \A i \in 1..Len(sim'.dataflow[Len(sim'.dataflow)].ins) :
                \E v \in SimValues :
                    /\ sim.bindings[v] # NoOut
                    /\ sim'.dataflow[Len(sim'.dataflow)].ins[i] = sim.bindings[v]]_vars

\* The Simulation has panicked after it added nodes, on a Value that is
\* still unbound.
C36_Witness ==
    /\ simPc = "panicked"
    /\ Len(sim.dataflow) > 2
    /\ \E v \in SimValues : sim.bindings[v] = NoOut

\* C37: lowering a Unary or a Binary changes no machine register other than
\* dest and TEMP, writes no word of the pool and leaves the stack alone; in
\* particular RC holds its value again after a shift whenever RC is not
\* dest.
C37_LoweringFrame ==
    (loPc = "done" /\ lowering.action \in {"Unary", "Binary"}) =>
        /\ \A r \in MachineRegs \ {MachineRegister(lowering.dest), TEMP} :
                machine.regs[r] = lowering.entry.regs[r]
        /\ machine.mem = lowering.entry.mem
        /\ machine.stack = lowering.entry.stack

\* A shift into a register other than RC, whose count is in a slot, has
\* run: RC was overwritten with the count and holds its value again, and
\* TEMP has been clobbered.
C37_Witness ==
    /\ loPc = "done"
    /\ lowering.action = "Binary"
    /\ lowering.op \in ShiftOps
    /\ MachineRegister(lowering.dest) # RC
    /\ lowering.src2[1] = "Slot"
    /\ ValueIn(lowering.entry, lowering.src2) # lowering.entry.regs[RC]
    /\ machine.regs[RC] = lowering.entry.regs[RC]
    /\ machine.regs[TEMP] # lowering.entry.regs[TEMP]
    /\ machine.regs[MachineRegister(lowering.dest)]
            # lowering.entry.regs[MachineRegister(lowering.dest)]

(***************************************************************************)
(* Builder::push followed by Builder::pop.  The actions of the two are run *)
(* on a Beetle memory of StackCells cells, from every stack pointer in     *)
(* StackPointers (inside the memory, at its end, beyond it, and 0, where   *)
(* the decrement wraps to 0xFFFFFFFC, the cell -4) and for every item in   *)
(* StackItems.  `vm.entry` is the state before the push.                   *)
(***************************************************************************)
StackCells == 3
StackPointers == {cell_bytes(n) : n \in 0..(StackCells + 1)}
StackItems == {0, 5, 0 - 1, MaxI32, MinI32}
StackBases == {0, 16}

StackState(base, pointer, sp, item, src) ==
    [v |-> [x \in BeetleRegisters \cup Globals |->
                CASE x = "BMemory" -> base
                  [] x = pointer -> sp
                  [] x = src -> item
                  [] x \in BeetleRegisters -> 9
                  [] OTHER -> 0],
     mem |-> [i \in 1..StackCells |-> 20 + i],
     fault |-> FALSE]

StackInit ==
    /\ \E base \in StackBases, pointer \in {"BSP", "BRP"}, sp \in StackPointers,
          item \in StackItems, src \in {"R2", "R3"}, dest \in {"R2", "R3", "R4"} :
        vm = [owner |-> "code", host |-> "push", state |-> "None", final |-> "None",
              s |-> StackState(base, pointer, sp, item, src),
              entry |-> StackState(base, pointer, sp, item, src),
              src |-> src, dest |-> dest, pointer |-> pointer,
              m |-> 0, n |-> 0, result |-> 0]
    /\ SimIdle /\ AllocIdle /\ LowIdle /\ WalkIdle /\ PatchIdle
    /\ CompileIdle /\ MovesIdle

\* The actions of Builder::push(src, pointer)
StackPush ==
    /\ vm.host = "push"
    /\ vm' = [vm EXCEPT !.s = b_push(@, vm.src, vm.pointer), !.host = "pop"]
    /\ UNCHANGED <<simVars, allocVars, lowVars, walkVars, patchVars, cp, mv>>

\* The actions of Builder::pop(dest, pointer)
StackPop ==
    /\ vm.host = "pop"
    /\ vm' = [vm EXCEPT !.s = b_pop(@, vm.dest, vm.pointer), !.host = "done"]
    /\ UNCHANGED <<simVars, allocVars, lowVars, walkVars, patchVars, cp, mv>>

StackNext == StackPush \/ StackPop

SpecStack == StackInit /\ [][StackNext]_vars

\* The cell that the push writes.
PushedCell == (vm.entry.v[vm.pointer] - cell_bytes(1)) \div 4 + 1

\* C38: after the actions of push(src, sp) and then of pop(dest, sp), sp
\* holds its value from before the push (one cell down and one cell up,
\* modulo 2^32) and, when the cell pushed to is in the memory, dest is the
\* 32-bit item that src held, that cell holds the item and no other cell
\* has changed.
C38_StackRoundTrip ==
    vm.host = "done" =>
        /\ vm.s.v[vm.pointer] = vm.entry.v[vm.pointer]
        /\ ~vm.s.fault =>
            /\ vm.s.v[vm.dest] = vm.entry.v[vm.src]
            /\ \A i \in 1..StackCells :
                vm.s.mem[i] = IF i = PushedCell THEN vm.entry.v[vm.src]
                              ELSE vm.entry.mem[i]

\* A round trip inside the memory through two different registers: the
\* pushed cell changed, and dest changed to the item.
C38_Witness ==
    /\ vm.host = "done"
    /\ ~vm.s.fault
    /\ vm.dest # vm.src
    /\ vm.entry.v[vm.dest] # vm.entry.v[vm.src]
    /\ vm.s.v[vm.dest] = MinI32
    /\ PushedCell \in 1..StackCells
    /\ vm.s.mem # vm.entry.mem

(***************************************************************************)
(* Machine::get_code: the condition of every Case of every State, as the   *)
(* TestOp that build() is given, and its truth on a 32-bit value of the    *)
(* variable that it tests.                                                 *)
(***************************************************************************)
CELL_BITS == cell_bytes(8)
Always == <<"Always">>
StateTests(state) ==
    CASE state \in {"Root", "Next", "Branch", "Branchi"} -> <<Always>>
      [] state \in {"Pick", "Roll"} -> [u \in 1..4 |-> <<"Eq", "Stack0", u - 1>>]
      [] state \in {"Qdup", "Qbranch", "Qbranchi"} ->
            <<<<"Eq", "Stack0", 0>>, <<"Ne", "Stack0", 0>>>>
      [] state \in {"Lshift", "Rshift"} ->
            <<<<"Ult", "Stack1", CELL_BITS>>, <<"Uge", "Stack1", CELL_BITS>>>>
      [] state \in {"Loop", "Loopi"} ->
            <<<<"Eq", "LoopFlag", 0>>, <<"Ne", "LoopFlag", 0>>>>
      [] state \in {"Ploopp", "Ploopm", "Ploopip", "Ploopim"} ->
            <<<<"Lt", "LoopFlag", 0>>, <<"Ge", "LoopFlag", 0>>>>
      [] state = "Ploop" -> <<<<"Ge", "LoopStep", 0>>, <<"Lt", "LoopStep", 0>>>>
      [] state = "Ploopi" -> <<<<"Ge", "R2", 0>>, <<"Lt", "R2", 0>>>>
      [] state = "Halt" -> <<>>
      [] state = "Dispatch" -> [k \in 1..NumOpcodes |-> <<"Bits", "Opcode", 255, k - 1>>]

\* code::TestOp on the 32-bit value x (held as a signed integer); the
\* constant of Ult and Uge is not negative, and the mask of Bits is 0xFF.
TestHolds32(test, x) ==
    CASE test[1] = "Always" -> TRUE
      [] test[1] = "Eq" -> x = test[3]
      [] test[1] = "Ne" -> x # test[3]
      [] test[1] = "Lt" -> x < test[3]
      [] test[1] = "Ge" -> x >= test[3]
      [] test[1] = "Ult" -> x >= 0 /\ x < test[3]
      [] test[1] = "Uge" -> x < 0 \/ x >= test[3]
      [] test[1] = "Bits" -> x % (test[3] + 1) = test[4]

\* The values of the tested variable that are tried.
TestedValues ==
    {MinI32, 0 - 1, 0, 1, 3, 4, CELL_BITS - 1, CELL_BITS, NumOpcodes - 1, NumOpcodes,
     255, 256 + 9, MaxI32}

\* "Mijit selects the first transition with a true condition" (0: none).
FirstTrue(state, x) ==
    LET S == {k \in 1..Len(StateTests(state)) : TestHolds32(StateTests(state)[k], x)}
    IN  IF S = {} THEN 0 ELSE CHOOSE k \in S : \A j \in S : k <= j

CasesInit ==
    /\ \E state \in BeetleStates, x \in TestedValues :
        vm = [owner |-> "code", host |-> "select", state |-> state, value |-> x,
              selected |-> 0]
    /\ SimIdle /\ AllocIdle /\ LowIdle /\ WalkIdle /\ PatchIdle
    /\ CompileIdle /\ MovesIdle

\* The state is entered with the value: a Case is selected.
SelectCase ==
    /\ vm.host = "select"
    /\ FirstTrue(vm.state, vm.value) # 0
    /\ vm' = [vm EXCEPT !.selected = FirstTrue(vm.state, vm.value), !.host = "selected"]
    /\ UNCHANGED <<simVars, allocVars, lowVars, walkVars, patchVars, cp, mv>>

\* The state is entered with the value, and no Case has a true condition.
SelectNone ==
    /\ vm.host = "select"
    /\ FirstTrue(vm.state, vm.value) = 0
    /\ vm' = [vm EXCEPT !.host = "no case"]
    /\ UNCHANGED <<simVars, allocVars, lowVars, walkVars, patchVars, cp, mv>>

CasesNext == SelectCase \/ SelectNone

SpecCases == CasesInit /\ [][CasesNext]_vars

\* C39: every state other than Halt has a Case whose condition is true for
\* every value of the variable that it tests, the first such Case in list
\* order is the one selected, and Halt is the only state without a Case.
C39_ExhaustiveCases ==
    /\ \A state \in BeetleStates : StateTests(state) = <<>> <=> state = "Halt"
    /\ vm.host = "no case" => vm.state = "Halt"
    /\ vm.host = "selected" =>
            /\ TestHolds32(StateTests(vm.state)[vm.selected], vm.value)
            /\ \A j \in 1..(vm.selected - 1) :
                    ~TestHolds32(StateTests(vm.state)[j], vm.value)

\* The nodes of the hot path that the backward loop of walk() has not
\* visited yet: those of the first wk.i instructions.
Unvisited == {Instructions[p][2] : p \in {q \in 1..wk.i : Instructions[q][1] = "Node"}}

====
